---- MODULE Spec2Model ----
(***************************************************************************)
(* Reconciliation engine of invoicerecon: ReconciliationMatcher.run and    *)
(* its helpers (apps/reconciliation/services/matcher.py), the session and  *)
(* discrepancy rows (apps/reconciliation/models.py), the view that creates *)
(* and runs a session (apps/reconciliation/views.py) and the time-entry    *)
(* sync (apps/integrations/services/clio.py).                              *)
(*                                                                         *)
(* Text is a sequence of one-character strings.  Decimal(…, 2 places)      *)
(* values are integers counted in hundredths (cents, hundredths of an      *)
(* hour).  A similarity ratio is the exact fraction <<num, den>>.          *)
(***************************************************************************)
EXTENDS Integers, Sequences, FiniteSets, TLC

(***************************************************************************)
(* Bounds of the model.                                                    *)
(***************************************************************************)
MaxSessions == 2
MaxSyncs == 1
MaxReruns == 1
MaxResolved == 1

(***************************************************************************)
(* Text helpers: str.lower(), str.strip().                                 *)
(***************************************************************************)
LowerChar(c) ==
    CASE c = "A" -> "a"
      [] c = "B" -> "b"
      [] c = "J" -> "j"
      [] c = "D" -> "d"
      [] OTHER -> c

Lower(s) == [i \in 1..Len(s) |-> LowerChar(s[i])]

RECURSIVE LStrip(_)
LStrip(s) == IF s # <<>> /\ Head(s) = " " THEN LStrip(Tail(s)) ELSE s

RECURSIVE RStrip(_)
RStrip(s) ==
    IF s # <<>> /\ s[Len(s)] = " " THEN RStrip(SubSeq(s, 1, Len(s) - 1)) ELSE s

Strip(s) == RStrip(LStrip(s))

(***************************************************************************)
(* difflib.SequenceMatcher(None, a, b).ratio() as _similar uses it: no     *)
(* junk, and no autojunk below 200 characters.  A window is the inclusive  *)
(* index range alo..ahi of a and blo..bhi of b.                            *)
(***************************************************************************)

\* Length of the common run that ends at a[i], b[j] inside the window
\* (difflib's j2len[j] after row i of find_longest_match).
RECURSIVE RunLen(_, _, _, _, _, _)
RunLen(a, b, i, j, alo, blo) ==
    IF a[i] # b[j] THEN 0
    ELSE IF i > alo /\ j > blo THEN 1 + RunLen(a, b, i - 1, j - 1, alo, blo)
    ELSE 1

\* find_longest_match: the longest matching block of the window; among the
\* longest, the one found first by the scan (smallest i, then smallest j).
\* The result is <<start in a, start in b, size>>, size 0 when none.
FindLongestMatch(a, b, alo, ahi, blo, bhi) ==
    LET cells == {<<i, j>> \in (alo..ahi) \X (blo..bhi) : a[i] = b[j]}
        size(c) == RunLen(a, b, c[1], c[2], alo, blo)
    IN  IF cells = {} THEN <<alo, blo, 0>>
        ELSE LET best == CHOOSE c \in cells :
                            \A d \in cells :
                                \/ size(c) > size(d)
                                \/ /\ size(c) = size(d)
                                   /\ \/ c[1] < d[1]
                                      \/ c[1] = d[1] /\ c[2] <= d[2]
                 k == size(best)
             IN  <<best[1] - k + 1, best[2] - k + 1, k>>

\* get_matching_blocks, summed: the number of matched characters of the
\* window, the longest block m = <<i, j, k>> plus what matches on its left
\* and on its right.
RECURSIVE MatchedChars(_, _, _, _, _, _)
RECURSIVE MatchedAround(_, _, _, _, _, _, _)
MatchedAround(a, b, alo, ahi, blo, bhi, m) ==
    IF m[3] = 0 THEN 0
    ELSE m[3] + MatchedChars(a, b, alo, m[1] - 1, blo, m[2] - 1)
              + MatchedChars(a, b, m[1] + m[3], ahi, m[2] + m[3], bhi)

MatchedChars(a, b, alo, ahi, blo, bhi) ==
    IF alo > ahi \/ blo > bhi THEN 0
    ELSE MatchedAround(a, b, alo, ahi, blo, bhi,
                       FindLongestMatch(a, b, alo, ahi, blo, bhi))

\* ratio(): 2.0 * matches / length, and 1.0 when both are empty.
Ratio(a, b) ==
    IF Len(a) + Len(b) = 0 THEN <<1, 1>>
    ELSE <<2 * MatchedChars(a, b, 1, Len(a), 1, Len(b)), Len(a) + Len(b)>>

\* Comparison of two fractions with positive denominators.
FracGE(p, q) == p[1] * q[2] >= q[1] * p[2]
FracGT(p, q) == p[1] * q[2] > q[1] * p[2]

\* _similar(a, b, threshold): both lowered and stripped; the ratio, or 0.0
\* when it is below the threshold.
AtLeast(ratio, threshold) == IF FracGE(ratio, threshold) THEN ratio ELSE <<0, 1>>

_similar(a, b, threshold) == AtLeast(Ratio(Strip(Lower(a)), Strip(Lower(b))), threshold)

(***************************************************************************)
(* The rows of the database.                                               *)
(***************************************************************************)
Firms == {1, 2}

\* The firm of the users who post sessions.
UserFirms == {1}

\* Invoice rows (apps/invoices/models.py): invoice 1 is the firm's own,
\* invoice 2 belongs to the other firm; both are data-extracted.  Invoice 3
\* is the firm's own and still needs review.
InvoiceIds == {1, 2, 3}
Invoice(i) ==
    IF i = 1 THEN [id |-> 1, firm |-> 1, status |-> "extracted", total_amount |-> 60000]
    ELSE IF i = 2 THEN [id |-> 2, firm |-> 2, status |-> "confirmed", total_amount |-> 10000]
    ELSE [id |-> i, firm |-> 1, status |-> "review", total_amount |-> 60000]

\* The line items as extraction leaves them: not matched, no reference
\* (InvoiceLineItem.matched default False, matched_time_entry_id blank).
\* date 0 is None.  Invoice 1 holds line items 1 and 3, invoice 2 holds
\* line item 2; a line item 4, where there is one, is of invoice 3.
LineItemIds == {1, 2, 3}
LineItemInvoice(i) == IF i = 2 THEN 2 ELSE IF i = 4 THEN 3 ELSE 1

FirstLineItem ==
    [date |-> 1, description |-> <<"a", "b">>, timekeeper |-> <<"J", "d">>,
     hours |-> 200, rate |-> 30000, amount |-> 60000]

ThirdLineItem ==
    [date |-> 1, description |-> <<"b", "a">>, timekeeper |-> <<"j", "d", " ">>,
     hours |-> 0, rate |-> 0, amount |-> 10000]

LineItemPool ==
    { FirstLineItem,
      ThirdLineItem,
      [date |-> 0, description |-> <<"a", "b">>, timekeeper |-> <<"J", "d">>,
       hours |-> 200, rate |-> 30000, amount |-> 0] }

\* What the practice-management source can report for a time entry (the
\* defaults sync_time_entries writes); the entry's identity, (integration,
\* external_id), and its firm are not among them.
TimeEntryIds == {1, 2}
ExternalIds == {"x", "y"}
TimeEntryPool ==
    { [date |-> 1, description |-> <<"a", "b">>, timekeeper_name |-> <<"j", "d">>,
       hours |-> 200, rate |-> 30000, total |-> 60000, billable |-> TRUE],
      [date |-> 1, description |-> <<"a", "b">>, timekeeper_name |-> <<"j", "d">>,
       hours |-> 300, rate |-> 35000, total |-> 65000, billable |-> TRUE],
      [date |-> 1, description |-> <<"b", "a">>, timekeeper_name |-> <<"j", "d">>,
       hours |-> 300, rate |-> 30000, total |-> 90000, billable |-> TRUE],
      [date |-> 2, description |-> <<"a", "b">>, timekeeper_name |-> <<"J", "d">>,
       hours |-> 200, rate |-> 30000, total |-> 60000, billable |-> FALSE] }

(***************************************************************************)
(* The matcher's helpers (apps/reconciliation/services/matcher.py).        *)
(***************************************************************************)
\* Tolerances of _check_value_discrepancies, in hundredths: 0.01, 0.1, 1.0.
RateTolerance == 1
HoursTolerance == 10
AmountTolerance == 100

Abs(n) == IF n < 0 THEN -n ELSE n

NoEntry == [id |-> 0]

\* The key of a time entry in the lookup: (date, timekeeper_name.lower()).
EntryKey(entry) == <<entry.date, Lower(entry.timekeeper_name)>>

\* _build_time_entry_lookup: the dict as the sequence of its (key, bucket)
\* pairs in insertion order; a bucket keeps the order of time_entries.
LookupAdd(lookup, key, entry) ==
    IF \E k \in 1..Len(lookup) : lookup[k][1] = key
    THEN [k \in 1..Len(lookup) |->
            IF lookup[k][1] = key
            THEN <<key, Append(lookup[k][2], entry)>>
            ELSE lookup[k]]
    ELSE Append(lookup, <<key, <<entry>>>>)

RECURSIVE _build_time_entry_lookup(_)
_build_time_entry_lookup(time_entries) ==
    IF time_entries = <<>> THEN <<>>
    ELSE LookupAdd(_build_time_entry_lookup(SubSeq(time_entries, 1, Len(time_entries) - 1)),
                   EntryKey(time_entries[Len(time_entries)]),
                   time_entries[Len(time_entries)])

\* entry_lookup.get(key, [])
LookupGet(entry_lookup, key) ==
    IF \E k \in 1..Len(entry_lookup) : entry_lookup[k][1] = key
    THEN entry_lookup[CHOOSE k \in 1..Len(entry_lookup) : entry_lookup[k][1] = key][2]
    ELSE <<>>

\* The test of the fallback without the comparison of the dates.
FuzzyKeyAnyDate(line_item, lookup_key) ==
    _similar(line_item.timekeeper, lookup_key[2], <<4, 5>>)[1] # 0

\* The fuzzy-timekeeper fallback: the buckets of the line item's date whose
\* key name is similar (>= 0.8) to the timekeeper, in the dict's order.
FuzzyKey(line_item, lookup_key) ==
    /\ lookup_key[1] = line_item.date
    /\ _similar(line_item.timekeeper, lookup_key[2], <<4, 5>>)[1] # 0

RECURSIVE FuzzyCandidates(_, _, _)
FuzzyCandidates(line_item, entry_lookup, k) ==
    IF k > Len(entry_lookup) THEN <<>>
    ELSE (IF FuzzyKey(line_item, entry_lookup[k][1]) THEN entry_lookup[k][2] ELSE <<>>)
            \o FuzzyCandidates(line_item, entry_lookup, k + 1)

\* The candidates with the fuzzy fallback added to a bucket that is not empty.
OrFuzzyAlways(line_item, entry_lookup, exact) ==
    exact \o FuzzyCandidates(line_item, entry_lookup, 1)

\* The candidates of a line item: the bucket of its key, and the fuzzy
\* fallback when that bucket is empty.
OrFuzzy(line_item, entry_lookup, exact) ==
    IF exact # <<>> THEN exact ELSE FuzzyCandidates(line_item, entry_lookup, 1)

Candidates(line_item, entry_lookup) ==
    OrFuzzy(line_item, entry_lookup,
            LookupGet(entry_lookup, <<line_item.date, Lower(line_item.timekeeper)>>))

\* The score of one candidate: the description similarity, averaged with the
\* hours match (1.0 equal, 0.5 not) when both hours are non-zero.
WithHours(line_item, entry, sim) ==
    IF line_item.hours # 0 /\ entry.hours # 0
    THEN IF line_item.hours = entry.hours
         THEN <<sim[1] + sim[2], 2 * sim[2]>>
         ELSE <<2 * sim[1] + sim[2], 4 * sim[2]>>
    ELSE sim

Score(line_item, entry) ==
    WithHours(line_item, entry,
              _similar(line_item.description, entry.description, <<0, 1>>))

\* The test of the scan with >= in place of > on the best score.
BetterOrEqual(score, best_score) == FracGE(score, best_score) /\ FracGT(score, <<1, 2>>)

\* The scan of the candidates: a candidate replaces the best one when its
\* score is greater than the best score and greater than 0.5.
Better(score, best_score) == FracGT(score, best_score) /\ FracGT(score, <<1, 2>>)

RECURSIVE BestMatch(_, _, _, _, _)
RECURSIVE BestMatchStep(_, _, _, _, _, _)
BestMatchStep(line_item, candidates, k, best_match, best_score, score) ==
    IF Better(score, best_score)
    THEN BestMatch(line_item, candidates, k + 1, candidates[k], score)
    ELSE BestMatch(line_item, candidates, k + 1, best_match, best_score)

BestMatch(line_item, candidates, k, best_match, best_score) ==
    IF k > Len(candidates) THEN best_match
    ELSE BestMatchStep(line_item, candidates, k, best_match, best_score,
                       Score(line_item, candidates[k]))

BestOf(line_item, candidates) ==
    IF candidates = <<>> THEN NoEntry
    ELSE BestMatch(line_item, candidates, 1, NoEntry, <<0, 1>>)

\* The dict after a call that takes the bucket with
\* entry_lookup.setdefault(key, []): a key not yet in the dict gets a
\* bucket, which the fallback fills.
LookupAfterSetdefault(line_item, entry_lookup) ==
    IF line_item.date = 0 \/ line_item.timekeeper = <<>> THEN entry_lookup
    ELSE IF \E k \in 1..Len(entry_lookup) :
                entry_lookup[k][1] = <<line_item.date, Lower(line_item.timekeeper)>>
    THEN entry_lookup
    ELSE Append(entry_lookup, <<<<line_item.date, Lower(line_item.timekeeper)>>,
                                FuzzyCandidates(line_item, entry_lookup, 1)>>)

\* The dict after a call that takes the entry it returns out of its bucket.
LookupAfterRemoving(line_item, entry_lookup) ==
    IF line_item.date = 0 \/ line_item.timekeeper = <<>> THEN entry_lookup
    ELSE [k \in 1..Len(entry_lookup) |->
            <<entry_lookup[k][1],
              SelectSeq(entry_lookup[k][2],
                        LAMBDA e : e # BestOf(line_item, Candidates(line_item, entry_lookup)))>>]

\* The dict after a call of _find_matching_entry.  candidates is the bucket
\* object itself when the key is in the dict, and a new list otherwise, so
\* candidates.extend(entries) changes the dict only when the key's bucket
\* is there and empty.
LookupAfter(line_item, entry_lookup) ==
    IF line_item.date = 0 \/ line_item.timekeeper = <<>> THEN entry_lookup
    ELSE [k \in 1..Len(entry_lookup) |->
            IF /\ entry_lookup[k][1] = <<line_item.date, Lower(line_item.timekeeper)>>
               /\ entry_lookup[k][2] = <<>>
            THEN <<entry_lookup[k][1], FuzzyCandidates(line_item, entry_lookup, 1)>>
            ELSE entry_lookup[k]]

\* _find_matching_entry without its first test.
_find_matching_entry_unguarded(line_item, entry_lookup) ==
    BestOf(line_item, Candidates(line_item, entry_lookup))

\* _find_matching_entry: the matched entry, or NoEntry for None.
_find_matching_entry(line_item, entry_lookup) ==
    IF line_item.date = 0 \/ line_item.timekeeper = <<>> THEN NoEntry
    ELSE BestOf(line_item, Candidates(line_item, entry_lookup))

(***************************************************************************)
(* float(): the value checks compare Python floats, not decimals.  A float *)
(* is an IEEE 754 double: 53 significant bits, here the sequence m of its  *)
(* bits from the highest down, and the exponent e of its lowest bit, so    *)
(* its value is m * 2^e; zero is the empty m.  All floats here are >= 0.   *)
(***************************************************************************)
MantissaBits == 53

\* The binary digits of a natural number, the highest first; none for 0.
RECURSIVE Binary(_)
Binary(n) == IF n = 0 THEN <<>> ELSE Append(Binary(n \div 2), n % 2)

Zeros(k) == [i \in 1..k |-> 0]

\* m + 1 on a bit sequence that is not all ones.
RECURSIVE Increment(_, _)
Increment(m, k) ==
    IF m[k] = 0 THEN [m EXCEPT ![k] = 1]
    ELSE Increment([m EXCEPT ![k] = 0], k - 1)

\* Round to nearest, ties to even: m holds the bits kept, whose lowest has
\* exponent e; guard is the first bit dropped, sticky tells whether any
\* lower bit is set.
RoundBits(m, e, guard, sticky) ==
    IF guard = 1 /\ (sticky \/ m[Len(m)] = 1)
    THEN IF \A k \in 1..Len(m) : m[k] = 1
         THEN [m |-> <<1>> \o Zeros(Len(m) - 1), e |-> e + 1]
         ELSE [m |-> Increment(m, Len(m)), e |-> e]
    ELSE [m |-> m, e |-> e]

\* Long division by d continued below the units: q holds the digits of the
\* quotient so far, the lowest of exponent e, and r is the remainder.  Each
\* step gives one more binary digit, until q has one bit more than a
\* mantissa; then it is rounded.
RECURSIVE Quotient(_, _, _, _)
Quotient(r, d, q, e) ==
    IF Len(q) = MantissaBits + 1
    THEN RoundBits(SubSeq(q, 1, MantissaBits), e + 1, q[MantissaBits + 1], r # 0)
    ELSE IF 2 * r >= d
    THEN Quotient(2 * r - d, d, Append(q, 1), e - 1)
    ELSE Quotient(2 * r, d, IF q = <<>> THEN q ELSE Append(q, 0), e - 1)

\* float(Decimal) of a non-negative decimal given in hundredths: the double
\* nearest to value / 100.
float(value) ==
    IF value = 0 THEN [m |-> <<>>, e |-> 0]
    ELSE Quotient(value % 100, 100, Binary(value \div 100), 0)

\* x > y on floats.
RECURSIVE BitsGreater(_, _, _)
BitsGreater(a, b, k) ==
    IF k > Len(a) THEN FALSE
    ELSE IF a[k] # b[k] THEN a[k] > b[k]
    ELSE BitsGreater(a, b, k + 1)

FloatGreater(x, y) ==
    IF x.m = <<>> THEN FALSE
    ELSE IF y.m = <<>> THEN TRUE
    ELSE IF x.e # y.e THEN x.e > y.e
    ELSE BitsGreater(x.m, y.m, 1)

\* a - b on bit sequences of one length, a >= b, from bit k up.
RECURSIVE BitsMinus(_, _, _, _)
BitsMinus(a, b, k, borrow) ==
    IF k = 0 THEN <<>>
    ELSE IF a[k] - b[k] - borrow < 0
    THEN Append(BitsMinus(a, b, k - 1, 1), a[k] - b[k] - borrow + 2)
    ELSE Append(BitsMinus(a, b, k - 1, 0), a[k] - b[k] - borrow)

RECURSIVE DropZeros(_)
DropZeros(m) ==
    IF m = <<>> \/ m[1] = 1 THEN m ELSE DropZeros(Tail(m))

\* The float of the exact value m * 2^e, m without leading zeros.
Rounded(m, e) ==
    IF m = <<>> THEN [m |-> <<>>, e |-> 0]
    ELSE IF Len(m) <= MantissaBits
    THEN [m |-> m \o Zeros(MantissaBits - Len(m)), e |-> e - (MantissaBits - Len(m))]
    ELSE RoundBits(SubSeq(m, 1, MantissaBits), e + Len(m) - MantissaBits,
                   m[MantissaBits + 1],
                   \E k \in (MantissaBits + 2)..Len(m) : m[k] = 1)

\* x - y for x >= y: both brought to the lower exponent, subtracted
\* exactly, and the difference rounded.
FloatMinus(x, y) ==
    IF y.m = <<>> THEN x
    ELSE Rounded(DropZeros(BitsMinus(x.m \o Zeros(x.e - y.e), Zeros(x.e - y.e) \o y.m,
                                     MantissaBits + (x.e - y.e), 0)),
                 y.e)

\* abs(float(a) - float(b)) > tolerance, all three in hundredths.
Exceeds(a, b, tolerance) ==
    FloatGreater(IF FloatGreater(float(b), float(a))
                 THEN FloatMinus(float(b), float(a))
                 ELSE FloatMinus(float(a), float(b)),
                 float(tolerance))

\* The decimals the rows hold: rates, hours, and amounts or totals.
RateValues == {0, 10000, 10001, 10002, 30000, 35000}
HoursValues == {0, 200, 210, 211, 300}
AmountValues == {0, 114, 214, 215, 10000, 60000, 65000, 90000}

\* The comparisons _check_value_discrepancies can make, each computed once.
ExceedsOf ==
    [c \in (RateValues \X RateValues \X {RateTolerance})
               \cup (HoursValues \X HoursValues \X {HoursTolerance})
               \cup (AmountValues \X AmountValues \X {AmountTolerance}) |->
        Exceeds(c[1], c[2], c[3])] @@ <<>>

\* A Discrepancy row; reconciliation 0, invoice_line_item 0, time_entry 0
\* stand for no link, resolved_by 0 and resolved_at 0 for None.
Discrepancy(reconciliation, line_item_id, entry_id, type, severity, expected_value, actual_value, difference) ==
    [reconciliation |-> reconciliation, invoice_line_item |-> line_item_id,
     time_entry |-> entry_id, discrepancy_type |-> type, severity |-> severity,
     expected_value |-> expected_value, actual_value |-> actual_value,
     difference |-> difference, status |-> "pending",
     resolution_note |-> "", resolved_by |-> 0, resolved_at |-> 0]

\* The rate check with the operands of the difference exchanged.
RateMismatchExchanged(line_item, time_entry) ==
    IF /\ line_item.rate # 0 /\ time_entry.rate # 0
       /\ ExceedsOf[<<line_item.rate, time_entry.rate, RateTolerance>>]
    THEN <<Discrepancy(0, line_item.id, time_entry.id, "rate_mismatch", "medium",
                       time_entry.rate, line_item.rate,
                       time_entry.rate - line_item.rate)>>
    ELSE <<>>

RateMismatch(line_item, time_entry) ==
    IF /\ line_item.rate # 0 /\ time_entry.rate # 0
       /\ ExceedsOf[<<line_item.rate, time_entry.rate, RateTolerance>>]
    THEN <<Discrepancy(0, line_item.id, time_entry.id, "rate_mismatch", "medium",
                       time_entry.rate, line_item.rate,
                       line_item.rate - time_entry.rate)>>
    ELSE <<>>

HoursMismatch(line_item, time_entry) ==
    IF /\ line_item.hours # 0 /\ time_entry.hours # 0
       /\ ExceedsOf[<<line_item.hours, time_entry.hours, HoursTolerance>>]
    THEN <<Discrepancy(0, line_item.id, time_entry.id, "hours_mismatch", "medium",
                       time_entry.hours, line_item.hours,
                       line_item.hours - time_entry.hours)>>
    ELSE <<>>

AmountMismatch(line_item, time_entry) ==
    IF /\ line_item.amount # 0 /\ time_entry.total # 0
       /\ ExceedsOf[<<line_item.amount, time_entry.total, AmountTolerance>>]
    THEN <<Discrepancy(0, line_item.id, time_entry.id, "amount_mismatch", "high",
                       time_entry.total, line_item.amount,
                       line_item.amount - time_entry.total)>>
    ELSE <<>>

\* _check_value_discrepancies: the three checks, each on its own.
_check_value_discrepancies(line_item, time_entry) ==
    RateMismatch(line_item, time_entry)
        \o HoursMismatch(line_item, time_entry)
        \o AmountMismatch(line_item, time_entry)

\* The matched ids _find_unbilled_entries collects from the line items of
\* the run's invoices.
MatchedIds(items) ==
    {items[k].matched_time_entry_id : k \in {j \in 1..Len(items) :
                                              items[j].matched_time_entry_id # ""}}

IsUnbilled(entry, matched_ids) ==
    entry.external_id \notin matched_ids /\ entry.billable

\* _find_unbilled_entries: the billable entries whose external id is not
\* among the matched ids, in the order of time_entries.
UnbilledAmong(time_entries, matched_ids) ==
    SelectSeq(time_entries, LAMBDA entry : IsUnbilled(entry, matched_ids))

_find_unbilled_entries(time_entries, items) ==
    UnbilledAmong(time_entries, MatchedIds(items))

(***************************************************************************)
(* The state.                                                              *)
(***************************************************************************)
VARIABLES
    lineItems,      \* InvoiceLineItem rows, by id
    timeEntries,    \* TimeEntry rows, by id
    recs,           \* Reconciliation rows, in creation order
    discrepancies,  \* Discrepancy rows, in creation order
    loc,            \* per session: where its run() stands, and run()'s locals
    syncs,          \* number of syncs done
    reruns,         \* number of times run() was called again on a session
    report,         \* what the last call of the reporter returned
    call            \* a call of a function of the matcher and what it returned

vars == <<lineItems, timeEntries, recs, discrepancies, loc, syncs, reruns, report, call>>

Sessions == 1..Len(recs)

\* No report has been generated; no function is being called.
NoReport == [kind |-> "none"]
NoCall == [fn |-> "none"]

LineItemRow(i, r) ==
    [id |-> i, invoice |-> LineItemInvoice(i), date |-> r.date,
     description |-> r.description, timekeeper |-> r.timekeeper,
     hours |-> r.hours, rate |-> r.rate, amount |-> r.amount,
     matched |-> FALSE, matched_time_entry_id |-> ""]

\* Each entry comes from its own integration of firm 1, so (integration,
\* external_id) is unique as TimeEntry.Meta.unique_together requires.
TimeEntryRow(e, x, r) ==
    [id |-> e, integration |-> e, firm |-> 1, external_id |-> x,
     date |-> r.date, description |-> r.description,
     timekeeper_name |-> r.timekeeper_name, hours |-> r.hours, rate |-> r.rate,
     total |-> r.total, billable |-> r.billable]

Init ==
    /\ \E f \in [LineItemIds -> LineItemPool] :
           /\ f[1] = FirstLineItem
           /\ f[3] = ThirdLineItem
           /\ lineItems = [i \in LineItemIds |-> LineItemRow(i, f[i])]
    /\ \E g \in [TimeEntryIds -> TimeEntryPool], x \in [TimeEntryIds -> ExternalIds] :
           /\ x[1] = "x"
           /\ timeEntries = [e \in TimeEntryIds |-> TimeEntryRow(e, x[e], g[e])]
    /\ recs = <<>>
    /\ discrepancies = <<>>
    /\ loc = <<>>
    /\ syncs = 0
    /\ reruns = 0
    /\ report = NoReport
    /\ call = NoCall

(***************************************************************************)
(* Querysets of run().                                                     *)
(***************************************************************************)
\* TimeEntry.Meta.ordering = ['-date', 'timekeeper_name'], names compared by
\* code point.
CharCode(c) ==
    CASE c = " " -> 32
      [] c = "A" -> 65
      [] c = "B" -> 66
      [] c = "D" -> 68
      [] c = "J" -> 74
      [] c = "a" -> 97
      [] c = "b" -> 98
      [] c = "c" -> 99
      [] c = "d" -> 100
      [] c = "j" -> 106
      [] OTHER -> 120

RECURSIVE TextLess(_, _)
TextLess(a, b) ==
    IF b = <<>> THEN FALSE
    ELSE IF a = <<>> THEN TRUE
    ELSE IF Head(a) # Head(b) THEN CharCode(Head(a)) < CharCode(Head(b))
    ELSE TextLess(Tail(a), Tail(b))

EntryBefore(a, b) ==
    \/ a.date > b.date
    \/ a.date = b.date /\ TextLess(a.timekeeper_name, b.timekeeper_name)

\* The orders in which the database may return the entries `ids`: sorted by
\* the Meta ordering, rows that tie on it in any order.
EntryOrders(ids) ==
    {q \in [1..Cardinality(ids) -> ids] :
        /\ \A i, j \in DOMAIN q : i # j => q[i] # q[j]
        /\ \A i, j \in DOMAIN q :
              i < j => ~EntryBefore(timeEntries[q[j]], timeEntries[q[i]])}

\* The filter with date__gt and date__lt in place of date__gte and date__lte.
TimeEntriesQueryStrict(rec) ==
    {e \in DOMAIN timeEntries :
        /\ timeEntries[e].firm = rec.firm
        /\ timeEntries[e].date > rec.start_date
        /\ timeEntries[e].date < rec.end_date}

\* TimeEntry.objects.filter(firm=, date__gte=, date__lte=), as ids.
TimeEntriesQuery(rec) ==
    {e \in DOMAIN timeEntries :
        /\ timeEntries[e].firm = rec.firm
        /\ timeEntries[e].date >= rec.start_date
        /\ timeEntries[e].date <= rec.end_date}

\* Sequence of the elements of a set of integers, ascending.
RECURSIVE Ascending(_)
Ascending(S) ==
    IF S = {} THEN <<>>
    ELSE LET m == CHOOSE x \in S : \A y \in S : x <= y
         IN  <<m>> \o Ascending(S \ {m})

Reverse(q) == [i \in 1..Len(q) |-> q[Len(q) + 1 - i]]

\* Invoice.objects.filter(id__in=invoice_ids, status__in=[extracted,
\* confirmed]), newest first (Invoice.Meta.ordering = ['-created_at']; ids
\* are in creation order).
InvoicesQuery(rec) ==
    Reverse(Ascending({i \in rec.invoice_ids :
                          Invoice(i).status \in {"extracted", "confirmed"}}))

\* The line items run() walks: those of each invoice of the queryset, by
\* line number, as the prefetch loads them.
RECURSIVE LineItemsOf(_)
LineItemsOf(invoices) ==
    IF invoices = <<>> THEN <<>>
    ELSE LET ids == Ascending({i \in DOMAIN lineItems : LineItemInvoice(i) = Head(invoices)})
         IN  [k \in 1..Len(ids) |-> lineItems[ids[k]]] \o LineItemsOf(Tail(invoices))

RECURSIVE SumTotalAmount(_)
SumTotalAmount(invoices) ==
    IF invoices = <<>> THEN 0
    ELSE Invoice(Head(invoices)).total_amount + SumTotalAmount(Tail(invoices))

(***************************************************************************)
(* Reconciliation.match_rate.                                              *)
(***************************************************************************)
\* round(p / q, 0) for integers p >= 0, q > 0, halves to the even neighbour.
RoundHalfEven(p, q) ==
    IF 2 * (p % q) < q THEN p \div q
    ELSE IF 2 * (p % q) > q THEN (p \div q) + 1
    ELSE IF (p \div q) % 2 = 0 THEN p \div q
    ELSE (p \div q) + 1

\* The property without the rounding: the quotient cut off.
match_rate_cut(rec) ==
    IF rec.line_items_count = 0 THEN 0
    ELSE (1000 * rec.matched_count) \div rec.line_items_count

\* Reconciliation.match_rate, in tenths of a percent:
\* round((matched_count / line_items_count) * 100, 1), and 0 for a session
\* without line items.
match_rate(rec) ==
    IF rec.line_items_count = 0 THEN 0
    ELSE RoundHalfEven(1000 * rec.matched_count, rec.line_items_count)

(***************************************************************************)
(* The session rows and the run.                                           *)
(***************************************************************************)
\* Reconciliation.objects.create(...): the model's defaults.  A date 0 is
\* None, completed_at 0 is None.
NewReconciliation(firm, invoice_ids, start_date, end_date) ==
    [firm |-> firm, invoice_ids |-> invoice_ids,
     start_date |-> start_date, end_date |-> end_date,
     status |-> "pending", error_message |-> "",
     invoices_count |-> 0, line_items_count |-> 0, matched_count |-> 0,
     discrepancy_count |-> 0, total_invoice_amount |-> 0,
     total_discrepancy_amount |-> 0, completed_at |-> 0]

\* run()'s locals before run() is called.  result: "none", "True", "False",
\* or "raised" when the exception left run().  The last six fields record
\* what the run did: the matched ids its detector used, the external ids it
\* matched, the line items it saved, the ids of its time entries and of
\* those it matched, and the pairs <<line item, time entry>> it matched.
NoRun ==
    [pc |-> "created", result |-> "none", time_entries |-> <<>>,
     entry_lookup |-> <<>>, invoices |-> <<>>, items |-> <<>>, cursor |-> 1,
     total_line_items |-> 0, matched_count |-> 0, discrepancy_count |-> 0,
     total_invoice_amount |-> 0, total_discrepancy_amount |-> 0,
     matched_ids |-> {}, run_matched |-> {}, wrote |-> {},
     entry_ids |-> {}, matched_entries |-> {}, pairs |-> {}]

Terminal == {"returned", "raised"}

\* No request is being served.
Idle == \A s \in Sessions : loc[s].pc \in Terminal

InvoiceSets == {{1}, {1, 2}}

\* ReconciliationCreateView.post up to the call of run(): the session row
\* of the user's firm and its ReconciliationInvoice rows.
Post(firm, invoice_ids, start_date, end_date) ==
    /\ Len(recs) < MaxSessions
    /\ Idle
    /\ invoice_ids # {}
    /\ recs' = Append(recs, NewReconciliation(firm, invoice_ids, start_date, end_date))
    /\ loc' = Append(loc, NoRun)
    /\ UNCHANGED <<lineItems, timeEntries, discrepancies, syncs, reruns, report, call>>

\* run() has ended: its locals are gone; what the run did is kept.
Ended(locals, pc, result) ==
    [NoRun EXCEPT !.pc = pc, !.result = result,
                  !.matched_ids = locals.matched_ids,
                  !.run_matched = locals.run_matched,
                  !.wrote = locals.wrote,
                  !.entry_ids = locals.entry_ids,
                  !.matched_entries = locals.matched_entries,
                  !.pairs = locals.pairs]

\* The except block of run(): the session object, as run() left it, gets
\* status error and the message and is saved; when that save raises too,
\* nothing is written and the exception leaves run().
Handler(s, obj, message, handler_ok, locals) ==
    IF handler_ok
    THEN /\ recs' = [recs EXCEPT ![s] =
                        [obj EXCEPT !.status = "error", !.error_message = message]]
         /\ loc' = [loc EXCEPT ![s] = Ended(locals, "returned", "False")]
    ELSE /\ recs' = recs
         /\ loc' = [loc EXCEPT ![s] = Ended(locals, "raised", "raised")]

\* run()'s locals at the head of the invoice loop.
Loaded(time_entries, invoices) ==
    [NoRun EXCEPT
        !.pc = "loop",
        !.time_entries = time_entries,
        !.entry_ids = {time_entries[k].id : k \in DOMAIN time_entries},
        !.entry_lookup = _build_time_entry_lookup(time_entries),
        !.invoices = invoices,
        !.items = LineItemsOf(invoices),
        !.total_invoice_amount = SumTotalAmount(invoices)]

\* run() from its first statement to the head of the invoice loop: status
\* processing is saved, the time entries of the date range are read (in the
\* order `order`) and indexed, the counters start at zero, the invoices and
\* their line items are read.  A start or end date of None makes the filter
\* raise.
Begin(s, rec, order) ==
    /\ recs' = [recs EXCEPT ![s] = rec]
    /\ order \in EntryOrders(TimeEntriesQuery(rec))
    /\ loc' = [loc EXCEPT ![s] =
                  Loaded([k \in DOMAIN order |-> timeEntries[order[k]]], InvoicesQuery(rec))]

BeginOrRaise(s, rec, order) ==
    /\ IF rec.start_date = 0 \/ rec.end_date = 0
       THEN order = <<>> /\ Handler(s, rec, "ValueError", TRUE, NoRun)
       ELSE Begin(s, rec, order)
    /\ UNCHANGED <<lineItems, timeEntries, discrepancies, syncs, report, call>>

\* The call of run() by the view, on the session it has just created.
RunStart(s, order) ==
    /\ s \in Sessions
    /\ loc[s].pc = "created"
    /\ BeginOrRaise(s, [recs[s] EXCEPT !.status = "processing"], order)
    /\ UNCHANGED reruns

\* ReconciliationMatcher(reconciliation).run() called on a session whose
\* run has ended: run() itself looks at no status before it starts.
Rerun(s, order) ==
    /\ s \in Sessions
    /\ loc[s].pc \in Terminal
    /\ Idle
    /\ reruns < MaxReruns
    /\ BeginOrRaise(s, [recs[s] EXCEPT !.status = "processing"], order)
    /\ reruns' = reruns + 1

\* What run() adds to total_discrepancy_amount for a saved value
\* discrepancy: |difference| when the difference is not zero.
DifferenceAmount(disc) == IF disc.difference # 0 THEN Abs(disc.difference) ELSE 0

RECURSIVE SumDifferenceAmount(_)
SumDifferenceAmount(discs) ==
    IF discs = <<>> THEN 0
    ELSE DifferenceAmount(Head(discs)) + SumDifferenceAmount(Tail(discs))

\* The missing_time discrepancy with expected and actual value exchanged.
MissingTimeExchanged(s, line_item) ==
    Discrepancy(s, line_item.id, 0, "missing_time", "high",
                0, line_item.amount, line_item.amount)

\* The missing_time discrepancy of a line item without a match.
MissingTime(s, line_item) ==
    Discrepancy(s, line_item.id, 0, "missing_time", "high",
                line_item.amount, 0, line_item.amount)

\* What run() adds to total_discrepancy_amount for a missing_time.
MissingTimeAmount(line_item) == line_item.amount

\* The value discrepancies of a matched pair as run() saves them.
Attached(s, found) == [k \in 1..Len(found) |-> [found[k] EXCEPT !.reconciliation = s]]

\* The branch of a match: the line item is saved as matched, its value
\* discrepancies are saved and counted.
Matched(s, l, line_item, match, discs) ==
    /\ lineItems' = [lineItems EXCEPT
                        ![line_item.id].matched = TRUE,
                        ![line_item.id].matched_time_entry_id = match.external_id]
    /\ discrepancies' = discrepancies \o discs
    /\ loc' = [loc EXCEPT ![s] =
                  [l EXCEPT
                      !.items[l.cursor] = [line_item EXCEPT
                                              !.matched = TRUE,
                                              !.matched_time_entry_id = match.external_id],
                      !.cursor = l.cursor + 1,
                      !.total_line_items = l.total_line_items + 1,
                      !.matched_count = l.matched_count + 1,
                      !.discrepancy_count = l.discrepancy_count + Len(discs),
                      !.total_discrepancy_amount =
                          l.total_discrepancy_amount + SumDifferenceAmount(discs),
                      !.run_matched = l.run_matched \cup {match.external_id},
                      !.matched_entries = l.matched_entries \cup {match.id},
                      !.pairs = l.pairs \cup {<<line_item.id, match.id>>},
                      !.wrote = l.wrote \cup {line_item.id}]]

\* The branch of no match: a missing_time discrepancy is created and
\* counted; the line item is not saved.
Unmatched(s, l, line_item) ==
    /\ lineItems' = lineItems
    /\ discrepancies' = Append(discrepancies, MissingTime(s, line_item))
    /\ loc' = [loc EXCEPT ![s] =
                  [l EXCEPT
                      !.cursor = l.cursor + 1,
                      !.total_line_items = l.total_line_items + 1,
                      !.discrepancy_count = l.discrepancy_count + 1,
                      !.total_discrepancy_amount =
                          l.total_discrepancy_amount + MissingTimeAmount(line_item)]]

MatchOutcome(s, l, line_item, match) ==
    IF match # NoEntry
    THEN Matched(s, l, line_item, match,
                 Attached(s, _check_value_discrepancies(line_item, match)))
    ELSE Unmatched(s, l, line_item)

\* One turn of the inner loop of run(): the next line item is matched and
\* saved with its value discrepancies, or gets a missing_time discrepancy.
ProcessLineItem(s) ==
    /\ s \in Sessions
    /\ loc[s].pc = "loop"
    /\ loc[s].cursor <= Len(loc[s].items)
    /\ MatchOutcome(s, [loc[s] EXCEPT !.entry_lookup =
                                   LookupAfter(loc[s].items[loc[s].cursor], @)],
                    loc[s].items[loc[s].cursor],
                    _find_matching_entry(loc[s].items[loc[s].cursor], loc[s].entry_lookup))
    /\ UNCHANGED <<timeEntries, recs, syncs, reruns, report, call>>

\* The extra_time discrepancy of an unbilled entry.
ExtraTime(s, entry) ==
    Discrepancy(s, 0, entry.id, "extra_time", "medium", 0, entry.total, -entry.total)

\* What run() adds to total_discrepancy_amount for an extra_time: nothing.
ExtraTimeAmount(entry) == 0

RECURSIVE SumExtraTimeAmount(_)
SumExtraTimeAmount(entries) ==
    IF entries = <<>> THEN 0
    ELSE ExtraTimeAmount(Head(entries)) + SumExtraTimeAmount(Tail(entries))

Flagged(s, l, unbilled) ==
    /\ discrepancies' =
           discrepancies \o [k \in 1..Len(unbilled) |-> ExtraTime(s, unbilled[k])]
    /\ loc' = [loc EXCEPT ![s] =
                  [l EXCEPT
                      !.pc = "update",
                      !.matched_ids = MatchedIds(l.items),
                      !.discrepancy_count = l.discrepancy_count + Len(unbilled),
                      !.total_discrepancy_amount =
                          l.total_discrepancy_amount + SumExtraTimeAmount(unbilled)]]

\* After the loops: the unbilled entries are found and each gets its
\* extra_time discrepancy.
FindUnbilled(s) ==
    /\ s \in Sessions
    /\ loc[s].pc = "loop"
    /\ loc[s].cursor > Len(loc[s].items)
    /\ Flagged(s, loc[s], _find_unbilled_entries(loc[s].time_entries, loc[s].items))
    /\ UNCHANGED <<lineItems, timeEntries, recs, syncs, reruns, report, call>>

\* The assignments that end the try block with discrepancy_count taken
\* from the wrong counter.
ResultsMiscounted(rec, l) ==
    [rec EXCEPT
        !.invoices_count = Len(l.invoices),
        !.line_items_count = l.total_line_items,
        !.matched_count = l.matched_count,
        !.discrepancy_count = l.total_line_items,
        !.total_invoice_amount = l.total_invoice_amount,
        !.total_discrepancy_amount = l.total_discrepancy_amount,
        !.status = "completed",
        !.completed_at = 1]

\* The assignments that end the try block with line_items_count taken from
\* the matched line items only.
ResultsMatchedOnly(rec, l) ==
    [rec EXCEPT
        !.invoices_count = Len(l.invoices),
        !.line_items_count = l.matched_count,
        !.matched_count = l.matched_count,
        !.discrepancy_count = l.discrepancy_count,
        !.total_invoice_amount = l.total_invoice_amount,
        !.total_discrepancy_amount = l.total_discrepancy_amount,
        !.status = "completed",
        !.completed_at = 1]

\* The session object after the assignments that end the try block.
Results(rec, l) ==
    [rec EXCEPT
        !.invoices_count = Len(l.invoices),
        !.line_items_count = l.total_line_items,
        !.matched_count = l.matched_count,
        !.discrepancy_count = l.discrepancy_count,
        !.total_invoice_amount = l.total_invoice_amount,
        !.total_discrepancy_amount = l.total_discrepancy_amount,
        !.status = "completed",
        !.completed_at = 1]

\* The end of the try block: the results are assigned and saved, run()
\* returns True; when that save raises, the except block takes over.
UpdateResults(s, save_ok, handler_ok) ==
    /\ s \in Sessions
    /\ loc[s].pc = "update"
    /\ save_ok => handler_ok
    /\ IF save_ok
       THEN /\ recs' = [recs EXCEPT ![s] = Results(recs[s], loc[s])]
            /\ loc' = [loc EXCEPT ![s] = Ended(loc[s], "returned", "True")]
       ELSE Handler(s, Results(recs[s], loc[s]), "Exception", handler_ok, loc[s])
    /\ UNCHANGED <<lineItems, timeEntries, discrepancies, syncs, reruns, report, call>>

\* A statement of the loops raises (a save or a create fails, a wrapping
\* timeout fires) before it has written anything; the session row can
\* still be saved.
Raise(s) ==
    /\ s \in Sessions
    /\ loc[s].pc = "loop"
    /\ Handler(s, recs[s], "Exception", TRUE, loc[s])
    /\ UNCHANGED <<lineItems, timeEntries, discrepancies, syncs, reruns, report, call>>

\* sync_time_entries: update_or_create rewrites the fields of an entry the
\* source reports again.
Sync(e, r) ==
    /\ syncs < MaxSyncs
    /\ Idle
    /\ TimeEntryRow(e, timeEntries[e].external_id, r) # timeEntries[e]
    /\ timeEntries' = [timeEntries EXCEPT ![e] = TimeEntryRow(e, @.external_id, r)]
    /\ syncs' = syncs + 1
    /\ UNCHANGED <<lineItems, recs, discrepancies, loc, reruns, report, call>>

DateRanges == {<<0, 0>>, <<1, 2>>}

AllOrders == UNION {[1..n -> TimeEntryIds] : n \in 0..Cardinality(TimeEntryIds)}

Requests ==
    \/ \E firm \in UserFirms, invoice_ids \in InvoiceSets, range \in DateRanges :
           Post(firm, invoice_ids, range[1], range[2])
    \/ \E s \in 1..MaxSessions, order \in AllOrders :
           RunStart(s, order)
    \/ \E s \in 1..MaxSessions : ProcessLineItem(s)
    \/ \E s \in 1..MaxSessions : FindUnbilled(s)
    \/ \E s \in 1..MaxSessions, save_ok, handler_ok \in BOOLEAN :
           UpdateResults(s, save_ok, handler_ok)
    \/ \E s \in 1..MaxSessions : Raise(s)

Next == Requests

Spec == Init /\ [][Next]_vars

\* The program with run() also called again on sessions that have ended.
NextRerun ==
    \/ Requests
    \/ \E s \in 1..MaxSessions, order \in AllOrders :
           Rerun(s, order)

SpecRerun == Init /\ [][NextRerun]_vars

\* The program with the time-entry sync between the sessions.
NextSync ==
    \/ Requests
    \/ \E e \in TimeEntryIds, r \in TimeEntryPool : Sync(e, r)

SpecSync == Init /\ [][NextSync]_vars

(***************************************************************************)
(* The program over line items that lack a date or a timekeeper, and time  *)
(* entries that lack a timekeeper name.                                    *)
(***************************************************************************)
\* Line items as process_invoice leaves them when the extraction gives no
\* date (date stays None) or no timekeeper (timekeeper '').
BlankLineItems ==
    { [date |-> 0, description |-> <<"a", "b">>, timekeeper |-> <<"J", "d">>,
       hours |-> 200, rate |-> 30000, amount |-> 60000],
      [date |-> 1, description |-> <<"a", "b">>, timekeeper |-> <<>>,
       hours |-> 200, rate |-> 30000, amount |-> 60000] }

\* Time entries as sync_time_entries writes them; the second is one whose
\* user has no name (timekeeper_name '').
BlankTimeEntries ==
    { [date |-> 1, description |-> <<"a", "b">>, timekeeper_name |-> <<"j", "d">>,
       hours |-> 200, rate |-> 30000, total |-> 60000, billable |-> TRUE],
      [date |-> 1, description |-> <<"a", "b">>, timekeeper_name |-> <<>>,
       hours |-> 200, rate |-> 30000, total |-> 60000, billable |-> TRUE] }

InitBlank ==
    /\ \E f \in [LineItemIds -> BlankLineItems \cup {FirstLineItem}] :
           /\ f[1] = FirstLineItem
           /\ f[2] \in BlankLineItems
           /\ f[3] \in BlankLineItems
           /\ lineItems = [i \in LineItemIds |-> LineItemRow(i, f[i])]
    /\ \E g \in [TimeEntryIds -> BlankTimeEntries], x \in [TimeEntryIds -> ExternalIds] :
           /\ x[1] = "x"
           /\ timeEntries = [e \in TimeEntryIds |-> TimeEntryRow(e, x[e], g[e])]
    /\ recs = <<>>
    /\ discrepancies = <<>>
    /\ loc = <<>>
    /\ syncs = 0
    /\ reruns = 0
    /\ report = NoReport
    /\ call = NoCall

SpecBlank == InitBlank /\ [][Next]_vars

(***************************************************************************)
(* The program with requests served side by side: a session is created    *)
(* and run while the run of another one is under way.                      *)
(***************************************************************************)
\* ReconciliationCreateView.post in a worker of its own.
PostConcurrent(firm, invoice_ids, start_date, end_date) ==
    /\ Len(recs) < MaxSessions
    /\ invoice_ids # {}
    /\ recs' = Append(recs, NewReconciliation(firm, invoice_ids, start_date, end_date))
    /\ loc' = Append(loc, NoRun)
    /\ UNCHANGED <<lineItems, timeEntries, discrepancies, syncs, reruns, report, call>>

\* Time entries on two dates, so that no two tie in the ordering.
FirstDayEntries ==
    { [date |-> 1, description |-> <<"a", "b">>, timekeeper_name |-> <<"j", "d">>,
       hours |-> 200, rate |-> 30000, total |-> 60000, billable |-> TRUE],
      [date |-> 1, description |-> <<"a", "b">>, timekeeper_name |-> <<"j", "d">>,
       hours |-> 300, rate |-> 35000, total |-> 65000, billable |-> TRUE] }

SecondDayEntries ==
    { [date |-> 2, description |-> <<"a", "b">>, timekeeper_name |-> <<"j", "d">>,
       hours |-> 200, rate |-> 30000, total |-> 60000, billable |-> TRUE],
      [date |-> 2, description |-> <<"b", "a">>, timekeeper_name |-> <<"j", "d">>,
       hours |-> 300, rate |-> 30000, total |-> 90000, billable |-> FALSE] }

InitConcurrent ==
    /\ \E f \in [LineItemIds -> LineItemPool] :
           /\ f[1] = FirstLineItem
           /\ f[3] = ThirdLineItem
           /\ lineItems = [i \in LineItemIds |-> LineItemRow(i, f[i])]
    /\ \E g \in [TimeEntryIds -> FirstDayEntries \cup SecondDayEntries] :
       \E x \in [TimeEntryIds -> ExternalIds] :
           /\ g[1] \in FirstDayEntries
           /\ g[2] \in SecondDayEntries
           /\ x[1] = "x"
           /\ timeEntries = [e \in TimeEntryIds |-> TimeEntryRow(e, x[e], g[e])]
    /\ recs = <<>>
    /\ discrepancies = <<>>
    /\ loc = <<>>
    /\ syncs = 0
    /\ reruns = 0
    /\ report = NoReport
    /\ call = NoCall

DateRangesConcurrent == {<<1, 2>>, <<2, 2>>}

NextConcurrent ==
    \/ \E firm \in UserFirms, invoice_ids \in InvoiceSets, range \in DateRangesConcurrent :
           PostConcurrent(firm, invoice_ids, range[1], range[2])
    \/ \E s \in 1..MaxSessions, order \in AllOrders :
           RunStart(s, order)
    \/ \E s \in 1..MaxSessions : ProcessLineItem(s)
    \/ \E s \in 1..MaxSessions : FindUnbilled(s)
    \/ \E s \in 1..MaxSessions, save_ok, handler_ok \in BOOLEAN :
           UpdateResults(s, save_ok, handler_ok)
    \/ \E s \in 1..MaxSessions : Raise(s)

SpecConcurrent == InitConcurrent /\ [][NextConcurrent]_vars

(***************************************************************************)
(* The review workflow and the reporter                                    *)
(* (views.py, apps/reconciliation/services/reporter.py).                   *)
(***************************************************************************)
\* No more discrepancies than these exist: per session at most three for
\* each line item and one for each time entry.
MaxDiscrepancies == MaxSessions * (3 * Cardinality(LineItemIds) + Cardinality(TimeEntryIds))

\* reconciliation.discrepancies: the rows of session s, as their positions.
SessionDiscrepancies(s) ==
    {k \in DOMAIN discrepancies : discrepancies[k].reconciliation = s}

\* What a client may post as status: the four choices and a value that is
\* none of them.
PostedStatuses == {"pending", "acknowledged", "resolved", "ignored", "deferred"}
PostedNotes == {"", "n"}

\* DiscrepancyResolveView.post by a user of the firm `firm` (user id the
\* same number); resolved_at 1 stands for the time of the request.
Resolve(k, firm, status, note) ==
    /\ Idle
    /\ k \in DOMAIN discrepancies
    /\ recs[discrepancies[k].reconciliation].firm = firm
    /\ \/ discrepancies[k].resolved_at # 0
       \/ Cardinality({j \in DOMAIN discrepancies :
                          discrepancies[j].resolved_at # 0}) < MaxResolved
    /\ discrepancies' = [discrepancies EXCEPT
                            ![k].status = status,
                            ![k].resolution_note = note,
                            ![k].resolved_by = firm,
                            ![k].resolved_at = 1]
    /\ UNCHANGED <<lineItems, timeEntries, recs, loc, syncs, reruns, report, call>>

\* get_discrepancy_type_display and get_status_display: the label of a
\* choice, the value itself when it is none of the choices.
TypeDisplay(t) ==
    CASE t = "missing_time" -> "Missing Time Entry"
      [] t = "extra_time" -> "Unbilled Time Entry"
      [] t = "rate_mismatch" -> "Rate Mismatch"
      [] t = "hours_mismatch" -> "Hours Mismatch"
      [] t = "amount_mismatch" -> "Amount Mismatch"
      [] t = "missing_expense" -> "Missing Expense"
      [] t = "duplicate" -> "Possible Duplicate"
      [] t = "other" -> "Other"
      [] OTHER -> t

StatusDisplay(status) ==
    CASE status = "pending" -> "Pending Review"
      [] status = "acknowledged" -> "Acknowledged"
      [] status = "resolved" -> "Resolved"
      [] status = "ignored" -> "Ignored"
      [] OTHER -> status

\* severity.upper()
SeverityUpper(severity) ==
    CASE severity = "high" -> "HIGH"
      [] severity = "medium" -> "MEDIUM"
      [] severity = "low" -> "LOW"
      [] OTHER -> severity

RECURSIVE SumAmounts(_)
SumAmounts(ks) ==
    IF ks = {} THEN 0
    ELSE LET k == CHOOSE j \in ks : TRUE
         IN  DifferenceAmount(discrepancies[k]) + SumAmounts(ks \ {k})

\* by_type of generate_summary: per type label, the count and the sum of
\* |difference|.
ByType(ks) ==
    [label \in {TypeDisplay(discrepancies[k].discrepancy_type) : k \in ks} |->
        [count |-> Cardinality({k \in ks :
                        TypeDisplay(discrepancies[k].discrepancy_type) = label}),
         amount |-> SumAmounts({k \in ks :
                        TypeDisplay(discrepancies[k].discrepancy_type) = label})]]

\* discrepancies.filter(severity=...).count()
BySeverity(ks) ==
    [severity \in {"high", "medium", "low"} |->
        Cardinality({k \in ks : discrepancies[k].severity = severity})]

\* discrepancies.filter(status=...).count() for the three statuses
\* generate_summary asks for.
ResolutionStatus(ks) ==
    [status \in {"pending", "resolved", "ignored"} |->
        Cardinality({k \in ks : discrepancies[k].status = status})]

\* ReconciliationReporter.generate_summary (without generated_at).
generate_summary(s) ==
    [kind |-> "summary",
     reconciliation |-> s,
     summary |-> [invoices_processed |-> recs[s].invoices_count,
                  line_items_processed |-> recs[s].line_items_count,
                  matched_items |-> recs[s].matched_count,
                  match_rate |-> match_rate(recs[s]),
                  total_discrepancies |-> recs[s].discrepancy_count,
                  total_invoice_amount |-> recs[s].total_invoice_amount,
                  total_discrepancy_amount |-> recs[s].total_discrepancy_amount],
     discrepancies_by_type |-> ByType(SessionDiscrepancies(s)),
     discrepancies_by_severity |-> BySeverity(SessionDiscrepancies(s)),
     resolution_status |-> ResolutionStatus(SessionDiscrepancies(s))]

\* The place of a severity in the order of strings, which is what
\* order_by('-severity') sorts by: 'high' < 'low' < 'medium'.
SeveritySortKey(severity) ==
    CASE severity = "high" -> 1
      [] severity = "low" -> 2
      [] severity = "medium" -> 3
      [] OTHER -> 0

\* All sequences that hold each element of S once.
RECURSIVE Orderings(_)
Orderings(S) ==
    IF S = {} THEN {<<>>}
    ELSE UNION {{<<x>> \o p : p \in Orderings(S \ {x})} : x \in S}

\* The orders in which order_by('-severity') may return the rows ks: by
\* severity text descending, rows of one severity in any order.
CsvOrders(ks) ==
    {q \in Orderings(ks) :
        \A i, j \in DOMAIN q :
            i < j => SeveritySortKey(discrepancies[q[i]].severity)
                         >= SeveritySortKey(discrepancies[q[j]].severity)}

\* order_by('-severity', '-difference') of generate_html_report.
HtmlBefore(a, b) ==
    \/ SeveritySortKey(a.severity) > SeveritySortKey(b.severity)
    \/ /\ a.severity = b.severity
       /\ a.difference > b.difference

HtmlOrders(ks) ==
    {q \in Orderings(ks) :
        \A i, j \in DOMAIN q :
            i < j => ~HtmlBefore(discrepancies[q[j]], discrepancies[q[i]])}

\* f"${value:.2f}" if value else '': the sign, the units and the cents.
Money(value) ==
    IF value = 0 THEN ""
    ELSE [minus |-> value < 0, units |-> Abs(value) \div 100, cents |-> Abs(value) % 100]

\* One data row of the CSV; `of` is the row's discrepancy, invoice stands
\* for the invoice number and client name of the line item's invoice.
CsvRow(k) ==
    [of |-> k,
     type |-> TypeDisplay(discrepancies[k].discrepancy_type),
     severity |-> SeverityUpper(discrepancies[k].severity),
     invoice |-> IF discrepancies[k].invoice_line_item # 0
                 THEN LineItemInvoice(discrepancies[k].invoice_line_item) ELSE 0,
     expected_value |-> Money(discrepancies[k].expected_value),
     actual_value |-> Money(discrepancies[k].actual_value),
     difference |-> Money(discrepancies[k].difference),
     status |-> StatusDisplay(discrepancies[k].status),
     resolution_note |-> discrepancies[k].resolution_note]

\* ReconciliationReporter.generate_csv_report: the data rows.
generate_csv_report(s, order) ==
    [kind |-> "csv", reconciliation |-> s,
     rows |-> [i \in DOMAIN order |-> CsvRow(order[i])]]

\* ReconciliationReporter.generate_html_report: the context handed to the
\* template.
generate_html_report(s, order) ==
    [kind |-> "html", reconciliation |-> s,
     summary |-> generate_summary(s),
     discrepancies |-> order]

\* A summary request that puts the discrepancies of the session back to
\* pending.
SummaryResetting(s, firm) ==
    /\ Idle
    /\ s \in Sessions
    /\ recs[s].firm = firm
    /\ report' = generate_summary(s)
    /\ discrepancies' = [k \in DOMAIN discrepancies |->
                            IF discrepancies[k].reconciliation = s
                            THEN [discrepancies[k] EXCEPT !.status = "pending"]
                            ELSE discrepancies[k]]
    /\ UNCHANGED <<lineItems, timeEntries, recs, loc, syncs, reruns, call>>

\* ReconciliationSummaryAPIView.get, ReconciliationExportView.get and
\* ReconciliationReportView.get for a user of the firm `firm`.
Summary(s, firm) ==
    /\ Idle
    /\ s \in Sessions
    /\ recs[s].firm = firm
    /\ report' = generate_summary(s)
    /\ UNCHANGED <<lineItems, timeEntries, recs, discrepancies, loc, syncs, reruns, call>>

Export(s, firm) ==
    /\ Idle
    /\ s \in Sessions
    /\ recs[s].firm = firm
    /\ \E order \in CsvOrders(SessionDiscrepancies(s)) :
           report' = generate_csv_report(s, order)
    /\ UNCHANGED <<lineItems, timeEntries, recs, discrepancies, loc, syncs, reruns, call>>

Report(s, firm) ==
    /\ Idle
    /\ s \in Sessions
    /\ recs[s].firm = firm
    /\ \E order \in HtmlOrders(SessionDiscrepancies(s)) :
           report' = generate_html_report(s, order)
    /\ UNCHANGED <<lineItems, timeEntries, recs, discrepancies, loc, syncs, reruns, call>>

\* One set of rows for the review: line item 1 matches entry 1 with an
\* amount mismatch, line item 3 matches nothing, entry 2 is unbilled or not
\* billable.
InitReview ==
    /\ lineItems = [i \in LineItemIds |->
                       LineItemRow(i, IF i = 3 THEN ThirdLineItem ELSE FirstLineItem)]
    /\ \E g \in SecondDayEntries :
           timeEntries = [e \in TimeEntryIds |->
                             IF e = 1
                             THEN TimeEntryRow(1, "x",
                                      [date |-> 1, description |-> <<"a", "b">>,
                                       timekeeper_name |-> <<"j", "d">>,
                                       hours |-> 200, rate |-> 30000,
                                       total |-> 65000, billable |-> TRUE])
                             ELSE TimeEntryRow(e, "y", g)]
    /\ recs = <<>>
    /\ discrepancies = <<>>
    /\ loc = <<>>
    /\ syncs = 0
    /\ reruns = 0
    /\ report = NoReport
    /\ call = NoCall

\* The sessions under review are those over invoice 1 and all dates.
NextReview ==
    \/ \E firm \in UserFirms : Post(firm, {1}, 1, 2)
    \/ \E s \in 1..MaxSessions, order \in AllOrders :
           RunStart(s, order)
    \/ \E s \in 1..MaxSessions : ProcessLineItem(s)
    \/ \E s \in 1..MaxSessions : FindUnbilled(s)
    \/ \E s \in 1..MaxSessions, save_ok, handler_ok \in BOOLEAN :
           UpdateResults(s, save_ok, handler_ok)
    \/ \E s \in 1..MaxSessions : Raise(s)
    \/ \E k \in 1..MaxDiscrepancies, firm \in UserFirms :
       \E status \in PostedStatuses, note \in PostedNotes :
           Resolve(k, firm, status, note)
    \/ \E s \in 1..MaxSessions, firm \in UserFirms : Summary(s, firm)
    \/ \E s \in 1..MaxSessions, firm \in UserFirms : Export(s, firm)
    \/ \E s \in 1..MaxSessions, firm \in UserFirms : Report(s, firm)

SpecReview == InitReview /\ [][NextReview]_vars

(***************************************************************************)
(* The program over the data that probes the filters of run(): time        *)
(* entries dated before, at and after the ends of the date range and of    *)
(* either firm, and an invoice that is not yet extracted.                  *)
(***************************************************************************)
ScopeLineItemIds == LineItemIds \cup {4}
ScopeEntryIds == TimeEntryIds \cup {3}

\* A time entry of timekeeper jd dated `date`.
ScopeEntry(date) ==
    [date |-> date, description |-> <<"a", "b">>, timekeeper_name |-> <<"j", "d">>,
     hours |-> 200, rate |-> 30000, total |-> 60000, billable |-> TRUE]

\* Line item 1 is dated day 2 and line item 3 day 1 (invoice 1), line item
\* 2 day 3 (invoice 2), line item 4 day 2 (invoice 3, which needs review).
\* Entry 1 is dated day 1 or 2, entry 2 day 3 or 4, entry 3 day 2 or 3 and
\* is of either firm.
InitScope ==
    /\ lineItems = [i \in ScopeLineItemIds |->
                       IF i = 3 THEN LineItemRow(3, ThirdLineItem)
                       ELSE LineItemRow(i, [FirstLineItem EXCEPT
                                               !.date = IF i = 2 THEN 3 ELSE 2])]
    /\ \E d \in [ScopeEntryIds -> 1..4], firm \in Firms :
           /\ d[1] \in {1, 2}
           /\ d[2] \in {3, 4}
           /\ d[3] \in {2, 3}
           /\ timeEntries = [e \in ScopeEntryIds |->
                                [TimeEntryRow(e, <<"x", "y", "z">>[e], ScopeEntry(d[e]))
                                    EXCEPT !.firm = IF e = 3 THEN firm ELSE 1]]
    /\ recs = <<>>
    /\ discrepancies = <<>>
    /\ loc = <<>>
    /\ syncs = 0
    /\ reruns = 0
    /\ report = NoReport
    /\ call = NoCall

\* The sessions posted: invoices 1 and 3, or all three, over days 2 to 3.
InvoiceSetsScope == {{1, 3}, {1, 2, 3}}

OrdersScope == UNION {[1..n -> ScopeEntryIds] : n \in 0..Cardinality(ScopeEntryIds)}

NextScope ==
    \/ \E firm \in UserFirms, invoice_ids \in InvoiceSetsScope :
           Post(firm, invoice_ids, 2, 3)
    \/ \E s \in 1..MaxSessions, order \in OrdersScope :
           RunStart(s, order)
    \/ \E s \in 1..MaxSessions : ProcessLineItem(s)
    \/ \E s \in 1..MaxSessions : FindUnbilled(s)
    \/ \E s \in 1..MaxSessions, save_ok, handler_ok \in BOOLEAN :
           UpdateResults(s, save_ok, handler_ok)
    \/ \E s \in 1..MaxSessions : Raise(s)

SpecScope == InitScope /\ [][NextScope]_vars

(***************************************************************************)
(* The similarity scorer called on its own: _similar(a, b, threshold) over *)
(* all texts of a bounded length.                                          *)
(***************************************************************************)
MaxText == 3

SimilarChars == {"a", "b", "c", " "}

\* The texts of at most MaxText characters; the empty one is '' or None.
Texts == UNION {[1..n -> SimilarChars] : n \in 0..MaxText}

\* The thresholds _find_matching_entry passes: 0 for descriptions, 0.8 for
\* timekeepers.
Thresholds == {<<0, 1>>, <<4, 5>>}

InitSimilar ==
    /\ lineItems = <<>>
    /\ timeEntries = <<>>
    /\ recs = <<>>
    /\ discrepancies = <<>>
    /\ loc = <<>>
    /\ syncs = 0
    /\ reruns = 0
    /\ report = NoReport
    /\ call = NoCall

\* One call of _similar and what it returns.
Similar(a, b, threshold) ==
    /\ call = NoCall
    /\ call' = [fn |-> "_similar", a |-> a, b |-> b, threshold |-> threshold,
                result |-> _similar(a, b, threshold)]
    /\ UNCHANGED <<lineItems, timeEntries, recs, discrepancies, loc, syncs, reruns, report>>

NextSimilar ==
    /\ call = NoCall
    /\ \E a, b \in Texts, threshold \in Thresholds : Similar(a, b, threshold)

SpecSimilar == InitSimilar /\ [][NextSimilar]_vars

(***************************************************************************)
(* The value checks called on their own: _check_value_discrepancies over   *)
(* rates, hours and amounts that are absent, equal, apart by exactly the   *)
(* tolerance, and apart by one hundredth more.                             *)
(***************************************************************************)
\* One call of _check_value_discrepancies and the list it returns.
CheckValues(line_item, time_entry) ==
    /\ call = NoCall
    /\ call' = [fn |-> "_check_value_discrepancies", line_item |-> line_item,
                time_entry |-> time_entry,
                result |-> _check_value_discrepancies(line_item, time_entry)]
    /\ UNCHANGED <<lineItems, timeEntries, recs, discrepancies, loc, syncs, reruns, report>>

NextValues ==
    /\ call = NoCall
    /\ \E rate, entry_rate \in RateValues, hours, entry_hours \in HoursValues :
       \E amount, total \in AmountValues :
        CheckValues(LineItemRow(1, [FirstLineItem EXCEPT
                                       !.rate = rate, !.hours = hours, !.amount = amount]),
                    TimeEntryRow(1, "x", [date |-> 1, description |-> <<"a", "b">>,
                                          timekeeper_name |-> <<"j", "d">>,
                                          hours |-> entry_hours, rate |-> entry_rate,
                                          total |-> total, billable |-> TRUE]))

SpecValues == InitSimilar /\ [][NextValues]_vars

(***************************************************************************)
(* The matching of one line item called on its own: _find_matching_entry   *)
(* over line items and lists of time entries that differ in timekeeper,    *)
(* description, hours and date.                                            *)
(***************************************************************************)
MaxCandidates == 3

\* Line items of day 1: the timekeeper as the entries spell it, in another
\* case, with a trailing blank, one letter apart from 'abcdx', or a blank;
\* the description 'ab' or none; two hours or none.
MatchLineItems ==
    {[FirstLineItem EXCEPT !.timekeeper = t, !.description = d, !.hours = h] :
        t \in {<<"J", "d">>, <<"j", "d", " ">>, <<"a", "b", "c", "d", "e">>, <<" ">>},
        d \in {<<"a", "b">>, <<>>},
        h \in {0, 200}}

\* Time entries: <<date, timekeeper_name, description, hours>>.
MatchEntries ==
    {[date |-> r[1], timekeeper_name |-> r[2], description |-> r[3], hours |-> r[4],
      rate |-> 30000, total |-> 60000, billable |-> TRUE] :
        r \in {<<1, <<"j", "d">>, <<"a", "b">>, 200>>,
               <<1, <<"j", "d">>, <<"b", "a">>, 200>>,
               <<1, <<"j", "d">>, <<"a", "b">>, 0>>,
               <<1, <<"j", "d">>, <<"b", "a">>, 300>>,
               <<1, <<"a", "b", "c", "d", "x">>, <<"a", "b">>, 200>>,
               <<1, <<>>, <<>>, 200>>,
               <<2, <<"j", "d">>, <<"a", "b">>, 200>>,
               <<1, <<"j", "x">>, <<"a", "b">>, 200>>,
               <<1, <<"j", "d", " ">>, <<"a", "b">>, 200>>}}

\* One call of _find_matching_entry on the dict built from time_entries:
\* the candidates it scans, their scores, the entry it returns and the
\* dict after the call.
FindMatch(line_item, time_entries, entry_lookup) ==
    /\ call = NoCall
    /\ call' = [fn |-> "_find_matching_entry", line_item |-> line_item,
                time_entries |-> time_entries, entry_lookup |-> entry_lookup,
                candidates |-> Candidates(line_item, entry_lookup),
                scores |-> [k \in DOMAIN Candidates(line_item, entry_lookup) |->
                               Score(line_item, Candidates(line_item, entry_lookup)[k])],
                result |-> _find_matching_entry(line_item, entry_lookup),
                lookup_after |-> LookupAfter(line_item, entry_lookup)]
    /\ UNCHANGED <<lineItems, timeEntries, recs, discrepancies, loc, syncs, reruns, report>>

NextMatch ==
    /\ call = NoCall
    /\ \E r \in MatchLineItems, n \in 0..MaxCandidates : \E g \in [1..n -> MatchEntries] :
           FindMatch(LineItemRow(1, r),
                     [k \in 1..n |-> TimeEntryRow(k, "x", g[k])],
                     _build_time_entry_lookup([k \in 1..n |-> TimeEntryRow(k, "x", g[k])]))

SpecMatch == InitSimilar /\ [][NextMatch]_vars

(***************************************************************************)
(* Properties.                                                             *)
(***************************************************************************)
\* C1: once the status of a session is completed or error, no step changes
\* it; calling run() again on the session does not put it back into
\* processing.
StatusTerminal ==
    [][\A s \in Sessions :
          recs[s].status \in {"completed", "error"}
              => recs'[s].status = recs[s].status]_vars

\* The sum of |difference| over the discrepancies of session s.
RECURSIVE SumAbs(_, _)
SumAbs(s, discs) ==
    IF discs = <<>> THEN 0
    ELSE (IF Head(discs).reconciliation = s THEN Abs(Head(discs).difference) ELSE 0)
             + SumAbs(s, Tail(discs))

\* C2: for every completed session total_discrepancy_amount is the sum of
\* the absolute differences of all discrepancies of the session, the
\* missing_time and the extra_time ones included.
TotalDiscrepancyAmountIsSum ==
    \A s \in Sessions :
        recs[s].status = "completed"
            => recs[s].total_discrepancy_amount = SumAbs(s, discrepancies)

\* C3, as stated: every discrepancy of every type has
\* difference = actual_value - expected_value.
DifferenceIsActualMinusExpected ==
    \A k \in DOMAIN discrepancies :
        discrepancies[k].difference =
            discrepancies[k].actual_value - discrepancies[k].expected_value

ValueTypes == {"rate_mismatch", "hours_mismatch", "amount_mismatch"}

\* C3, amended: a rate, hours or amount mismatch has
\* difference = actual_value - expected_value; a missing_time and an
\* extra_time discrepancy have difference = expected_value - actual_value
\* (the line item amount, and minus the entry total).
DifferenceSignByType ==
    \A k \in DOMAIN discrepancies :
        IF discrepancies[k].discrepancy_type \in ValueTypes
        THEN discrepancies[k].difference =
                 discrepancies[k].actual_value - discrepancies[k].expected_value
        ELSE /\ discrepancies[k].discrepancy_type \in {"missing_time", "extra_time"}
             /\ discrepancies[k].difference =
                    discrepancies[k].expected_value - discrepancies[k].actual_value

\* C3: a rate mismatch, a missing_time with an amount and an extra_time
\* discrepancy have been created.
DifferenceSignByTypeWitness ==
    /\ \E k \in DOMAIN discrepancies :
           /\ discrepancies[k].discrepancy_type = "rate_mismatch"
           /\ discrepancies[k].difference < 0
    /\ \E k \in DOMAIN discrepancies :
           /\ discrepancies[k].discrepancy_type = "missing_time"
           /\ discrepancies[k].difference > 0
    /\ \E k \in DOMAIN discrepancies :
           /\ discrepancies[k].discrepancy_type = "extra_time"
           /\ discrepancies[k].difference < 0

\* C4: in a completed run every billable entry of the run's time entries
\* that no line item matched in the run has exactly one extra_time
\* discrepancy (medium, expected 0, actual the entry total, difference
\* minus the total); a matched entry and a non-billable entry have none.
ExtraTimeExactlyOnce ==
    \A s \in Sessions :
        recs[s].status = "completed" =>
            \A e \in loc[s].entry_ids :
                LET flags == {k \in DOMAIN discrepancies :
                                 /\ discrepancies[k].reconciliation = s
                                 /\ discrepancies[k].discrepancy_type = "extra_time"
                                 /\ discrepancies[k].time_entry = e}
                IN  IF timeEntries[e].billable /\ e \notin loc[s].matched_entries
                    THEN /\ Cardinality(flags) = 1
                         /\ \A k \in flags :
                               /\ discrepancies[k].severity = "medium"
                               /\ discrepancies[k].expected_value = 0
                               /\ discrepancies[k].actual_value = timeEntries[e].total
                               /\ discrepancies[k].difference = -timeEntries[e].total
                    ELSE flags = {}

\* C5: the matched ids the unbilled-entry detector of a run uses are the
\* external ids of the entries matched to line items during that run.
MatchedIdsFromThisRun ==
    \A s \in Sessions :
        recs[s].status = "completed" => loc[s].matched_ids = loc[s].run_matched

\* C6: when run() has ended it has returned True with status completed and
\* completed_at set, or returned False with status error and a message; no
\* exception has left run().
RunEndsTerminal ==
    \A s \in Sessions :
        loc[s].pc \in Terminal =>
            \/ /\ loc[s].result = "True"
               /\ recs[s].status = "completed"
               /\ recs[s].completed_at # 0
            \/ /\ loc[s].result = "False"
               /\ recs[s].status = "error"
               /\ recs[s].error_message # ""

\* C7: a session in status error has no Discrepancy row attached, and its
\* run has left no line item saved as matched.
NoPartialState ==
    \A s \in Sessions :
        recs[s].status = "error" =>
            /\ \A k \in DOMAIN discrepancies : discrepancies[k].reconciliation # s
            /\ loc[s].wrote = {}

\* C8: no line item of an invoice of another firm is saved by a session's
\* run, gets a discrepancy in the session or is counted by it.
OutOfFirmRejected ==
    \A s \in Sessions :
        /\ \A i \in loc[s].wrote : Invoice(LineItemInvoice(i)).firm = recs[s].firm
        /\ \A k \in DOMAIN discrepancies :
              (discrepancies[k].reconciliation = s
                  /\ discrepancies[k].invoice_line_item # 0)
                  => Invoice(LineItemInvoice(discrepancies[k].invoice_line_item)).firm
                         = recs[s].firm
        /\ recs[s].line_items_count <=
               Cardinality({i \in LineItemIds :
                               /\ LineItemInvoice(i) \in recs[s].invoice_ids
                               /\ Invoice(LineItemInvoice(i)).firm = recs[s].firm})

\* C9: the discrepancy_count of a completed session is the number of
\* Discrepancy rows attached to the session.
DiscrepancyCountIsAttached ==
    \A s \in Sessions :
        recs[s].status = "completed" =>
            recs[s].discrepancy_count =
                Cardinality({k \in DOMAIN discrepancies :
                                discrepancies[k].reconciliation = s})

\* C9: a completed session with a value mismatch, a missing_time and an
\* extra_time discrepancy attached.
DiscrepancyCountWitness ==
    \E s \in Sessions :
        /\ recs[s].status = "completed"
        /\ recs[s].discrepancy_count >= 3
        /\ \A t \in {"amount_mismatch", "missing_time", "extra_time"} :
              \E k \in DOMAIN discrepancies :
                  /\ discrepancies[k].reconciliation = s
                  /\ discrepancies[k].discrepancy_type = t

\* C10: in every state of every session 0 <= matched_count <=
\* line_items_count, in the row and in run()'s counters; match_rate is 0
\* for a session without line items and otherwise the tenth of a percent
\* nearest to matched_count / line_items_count * 100, between 0 and 100.
MatchRateRounded ==
    \A s \in Sessions :
        /\ 0 <= recs[s].matched_count
        /\ recs[s].matched_count <= recs[s].line_items_count
        /\ 0 <= loc[s].matched_count
        /\ loc[s].matched_count <= loc[s].total_line_items
        /\ recs[s].line_items_count = 0 => match_rate(recs[s]) = 0
        /\ recs[s].line_items_count > 0 =>
               2 * Abs(match_rate(recs[s]) * recs[s].line_items_count
                           - 1000 * recs[s].matched_count)
                   <= recs[s].line_items_count
        /\ match_rate(recs[s]) \in 0..1000

\* C10: a completed session with two of three line items matched, whose
\* match rate is 66.7, and one without a line item counted.
MatchRateWitness ==
    /\ \E s \in Sessions :
           /\ recs[s].status = "completed"
           /\ recs[s].line_items_count = 3
           /\ recs[s].matched_count = 2
           /\ match_rate(recs[s]) = 667
    /\ \E s \in Sessions : recs[s].line_items_count = 0

\* C11: a line item without a date or without a timekeeper is never
\* matched to a time entry: no run saves it as matched or links a value
\* discrepancy to it, and every completed run over its invoice has exactly
\* one missing_time discrepancy for it.
NeverMatchedWithoutKey ==
    \A i \in LineItemIds :
        (lineItems[i].date = 0 \/ lineItems[i].timekeeper = <<>>) =>
            /\ ~lineItems[i].matched
            /\ lineItems[i].matched_time_entry_id = ""
            /\ \A s \in Sessions : i \notin loc[s].wrote
            /\ \A k \in DOMAIN discrepancies :
                  discrepancies[k].invoice_line_item = i
                      => discrepancies[k].discrepancy_type = "missing_time"
            /\ \A s \in Sessions :
                  (recs[s].status = "completed"
                      /\ LineItemInvoice(i) \in recs[s].invoice_ids)
                      => Cardinality({k \in DOMAIN discrepancies :
                                         /\ discrepancies[k].reconciliation = s
                                         /\ discrepancies[k].invoice_line_item = i
                                         /\ discrepancies[k].discrepancy_type
                                                = "missing_time"}) = 1

\* C11: a completed run over a line item without a timekeeper and one
\* without a date, with a time entry of the same date, description and
\* hours whose timekeeper name is empty too.
NeverMatchedWithoutKeyWitness ==
    \E s \in Sessions, i, j \in LineItemIds, e \in TimeEntryIds :
        /\ recs[s].status = "completed"
        /\ {LineItemInvoice(i), LineItemInvoice(j)} \subseteq recs[s].invoice_ids
        /\ lineItems[i].timekeeper = <<>>
        /\ lineItems[j].date = 0
        /\ e \in loc[s].entry_ids
        /\ timeEntries[e].timekeeper_name = <<>>
        /\ timeEntries[e].date = lineItems[i].date
        /\ timeEntries[e].description = lineItems[i].description
        /\ timeEntries[e].hours = lineItems[i].hours

\* C12: in a completed session every line item of its invoices that the
\* run left unmatched has exactly one missing_time discrepancy (severity
\* high, linked to the line item and to no time entry, expected the line
\* item amount, actual 0, difference the amount); a line item the run
\* matched has none.
MissingTimeExactlyOnce ==
    \A s \in Sessions :
        recs[s].status = "completed" =>
            \A i \in LineItemIds :
                LET missing == {k \in DOMAIN discrepancies :
                                   /\ discrepancies[k].reconciliation = s
                                   /\ discrepancies[k].discrepancy_type = "missing_time"
                                   /\ discrepancies[k].invoice_line_item = i}
                IN  IF /\ LineItemInvoice(i) \in recs[s].invoice_ids
                       /\ Invoice(LineItemInvoice(i)).status \in {"extracted", "confirmed"}
                       /\ i \notin loc[s].wrote
                    THEN /\ Cardinality(missing) = 1
                         /\ \A k \in missing :
                               /\ discrepancies[k].severity = "high"
                               /\ discrepancies[k].time_entry = 0
                               /\ discrepancies[k].expected_value = lineItems[i].amount
                               /\ discrepancies[k].actual_value = 0
                               /\ discrepancies[k].difference = lineItems[i].amount
                    ELSE missing = {}

\* C12: a completed session with a matched line item, and an unmatched one
\* with an amount that had candidates on its date, none scoring above the
\* threshold.
MissingTimeWitness ==
    \E s \in Sessions, i, j \in LineItemIds, e \in TimeEntryIds :
        /\ recs[s].status = "completed"
        /\ {LineItemInvoice(i), LineItemInvoice(j)} \subseteq recs[s].invoice_ids
        /\ i \in loc[s].wrote
        /\ j \notin loc[s].wrote
        /\ lineItems[j].amount > 0
        /\ e \in loc[s].entry_ids
        /\ timeEntries[e].date = lineItems[j].date

\* The discrepancies of session s as what they say, without the session.
DiscrepanciesOf(s) ==
    {[discrepancies[k] EXCEPT !.reconciliation = 0] :
        k \in {j \in DOMAIN discrepancies : discrepancies[j].reconciliation = s}}

\* The counters of a session row.
CountersOf(rec) ==
    <<rec.invoices_count, rec.line_items_count, rec.matched_count,
      rec.discrepancy_count, rec.total_invoice_amount, rec.total_discrepancy_amount>>

\* C13: two completed sessions of the same firm over the same invoices and
\* date range, run one after the other on the same time entries, have the
\* same discrepancies and the same counters.
SameInputsSameResult ==
    \A s, t \in Sessions :
        (/\ recs[s].status = "completed"
         /\ recs[t].status = "completed"
         /\ recs[s].firm = recs[t].firm
         /\ recs[s].invoice_ids = recs[t].invoice_ids
         /\ recs[s].start_date = recs[t].start_date
         /\ recs[s].end_date = recs[t].end_date)
            => /\ DiscrepanciesOf(s) = DiscrepanciesOf(t)
               /\ CountersOf(recs[s]) = CountersOf(recs[t])

\* What a session with the row rec produces when it runs alone, on line
\* items no run has touched: the line items as extraction left them, ...
AloneItems(rec) ==
    LET items == LineItemsOf(InvoicesQuery(rec))
    IN  [k \in DOMAIN items |->
            [items[k] EXCEPT !.matched = FALSE, !.matched_time_entry_id = ""]]

\* ... its time entries in the order of the database, ...
AloneEntries(rec) ==
    LET order == CHOOSE q \in EntryOrders(TimeEntriesQuery(rec)) : TRUE
    IN  [k \in DOMAIN order |-> timeEntries[order[k]]]

\* ... the line item and the discrepancies one turn of the loop leaves, ...
AloneStep(item, match) ==
    IF match # NoEntry
    THEN [item |-> [item EXCEPT !.matched = TRUE,
                                !.matched_time_entry_id = match.external_id],
          discs |-> _check_value_discrepancies(item, match)]
    ELSE [item |-> item, discs |-> <<MissingTime(0, item)>>]

AloneJoin(step, rest) ==
    [items |-> <<step.item>> \o rest.items, discs |-> step.discs \o rest.discs]

RECURSIVE AloneLoop(_, _)
AloneLoop(items, entry_lookup) ==
    IF items = <<>> THEN [items |-> <<>>, discs |-> <<>>]
    ELSE AloneJoin(AloneStep(Head(items), _find_matching_entry(Head(items), entry_lookup)),
                   AloneLoop(Tail(items), entry_lookup))

AloneFlags(looped, unbilled) ==
    {looped.discs[k] : k \in DOMAIN looped.discs}
        \cup {ExtraTime(0, unbilled[k]) : k \in DOMAIN unbilled}

AloneUnbilled(time_entries, looped) ==
    AloneFlags(looped, _find_unbilled_entries(time_entries, looped.items))

\* ... and all its discrepancies.
AloneDiscrepancies(rec) ==
    AloneUnbilled(AloneEntries(rec),
                  AloneLoop(AloneItems(rec), _build_time_entry_lookup(AloneEntries(rec))))

\* C14: a completed session has the discrepancies and the discrepancy
\* count it would have if it had run alone, however the steps of the other
\* session were interleaved with its own.
SessionsIndependent ==
    \A s \in Sessions :
        recs[s].status = "completed" =>
            /\ DiscrepanciesOf(s) = AloneDiscrepancies(recs[s])
            /\ recs[s].discrepancy_count = Cardinality(AloneDiscrepancies(recs[s]))

\* C15: a step in which the reporter returns a summary, a CSV or an HTML
\* report changes no session row and no discrepancy row (nor a line item
\* or a time entry): what the review workflow wrote stays as it is.
ReporterReadOnly ==
    [][report' # report =>
          /\ recs' = recs
          /\ discrepancies' = discrepancies
          /\ lineItems' = lineItems
          /\ timeEntries' = timeEntries]_vars

\* C15: a discrepancy resolved by the review workflow, and a CSV generated
\* afterwards that shows its status and note while the row still has them.
ReporterReadOnlyWitness ==
    /\ report.kind = "csv"
    /\ \E i \in DOMAIN report.rows :
           /\ report.rows[i].status = "Resolved"
           /\ report.rows[i].resolution_note = "n"
           /\ discrepancies[report.rows[i].of].status = "resolved"
           /\ discrepancies[report.rows[i].of].resolution_note = "n"
           /\ discrepancies[report.rows[i].of].resolved_by # 0
           /\ discrepancies[report.rows[i].of].resolved_at # 0

\* C16: a summary reports, for each of pending, acknowledged, resolved and
\* ignored, the number of the session's discrepancies in that status.
SummaryCountsEveryStatus ==
    [][(report' # report /\ report'.kind = "summary") =>
          \A status \in {"pending", "acknowledged", "resolved", "ignored"} :
              /\ status \in DOMAIN report'.resolution_status
              /\ report'.resolution_status[status] =
                     Cardinality({k \in DOMAIN discrepancies' :
                                     /\ discrepancies'[k].reconciliation
                                            = report'.reconciliation
                                     /\ discrepancies'[k].status = status})]_vars

\* C17: the CSV has one data row per discrepancy of the session, every
\* high row before every medium row before every low row, and rows of one
\* severity in creation order descending.
CsvRowsOrdered ==
    [][(report' # report /\ report'.kind = "csv") =>
          /\ {report'.rows[i].of : i \in DOMAIN report'.rows}
                 = {k \in DOMAIN discrepancies' :
                       discrepancies'[k].reconciliation = report'.reconciliation}
          /\ \A i, j \in DOMAIN report'.rows :
                i < j =>
                    /\ report'.rows[i].of # report'.rows[j].of
                    /\ \/ report'.rows[i].severity = "HIGH"
                             /\ report'.rows[j].severity \in {"MEDIUM", "LOW"}
                       \/ report'.rows[i].severity = "MEDIUM"
                             /\ report'.rows[j].severity = "LOW"
                       \/ report'.rows[i].severity = report'.rows[j].severity
                             /\ report'.rows[i].of > report'.rows[j].of]_vars

\* C18: a run processes only line items of the session's invoices that are
\* extracted or confirmed, and indexes, matches and flags exactly the time
\* entries of the session's firm dated from start_date to end_date, both
\* days included: an entry dated start_date or end_date is read, an entry
\* of a day outside or of another firm is neither matched nor flagged.
InScope(s, e) ==
    /\ timeEntries[e].firm = recs[s].firm
    /\ ~(timeEntries[e].date < recs[s].start_date)
    /\ ~(recs[s].end_date < timeEntries[e].date)

IncludedItem(s, i) ==
    /\ LineItemInvoice(i) \in recs[s].invoice_ids
    /\ Invoice(LineItemInvoice(i)).status \in {"extracted", "confirmed"}

RunWithinScope ==
    \A s \in Sessions :
        /\ loc[s].pc # "created" => \A e \in DOMAIN timeEntries :
                                        e \in loc[s].entry_ids <=> InScope(s, e)
        /\ \A e \in loc[s].matched_entries : InScope(s, e)
        /\ \A k \in 1..Len(loc[s].items) : IncludedItem(s, loc[s].items[k].id)
        /\ \A i \in loc[s].wrote : IncludedItem(s, i)
        /\ \A k \in SessionDiscrepancies(s) :
              /\ discrepancies[k].time_entry # 0 => InScope(s, discrepancies[k].time_entry)
              /\ discrepancies[k].invoice_line_item # 0
                    => IncludedItem(s, discrepancies[k].invoice_line_item)

\* A completed session over days 2 to 3 with invoice 3 among its invoices:
\* entry 1 is dated day 2 and entry 2 day 3, one of them matched and one
\* flagged, while entry 3 is of the other firm and in no discrepancy.
RunWithinScopeWitness ==
    \E s \in Sessions :
        /\ recs[s].status = "completed"
        /\ 3 \in recs[s].invoice_ids
        /\ DOMAIN timeEntries = ScopeEntryIds
        /\ timeEntries[1].date = recs[s].start_date
        /\ timeEntries[2].date = recs[s].end_date
        /\ timeEntries[3].firm # recs[s].firm
        /\ loc[s].matched_entries # {}
        /\ loc[s].matched_entries \subseteq {1, 2}
        /\ \E k \in SessionDiscrepancies(s) :
              /\ discrepancies[k].discrepancy_type = "extra_time"
              /\ discrepancies[k].time_entry \in {1, 2}

\* C19: _similar returns 0.0 when both texts are empty, or blank once
\* trimmed: two blank descriptions earn no similarity.
BothBlankScoreZero ==
    (/\ call # NoCall
     /\ Strip(call.a) = <<>>
     /\ Strip(call.b) = <<>>) => call.result[1] = 0

\* C20: _similar is symmetric: _similar(a, b, t) = _similar(b, a, t).
SameFraction(p, q) == p[1] * q[2] = q[1] * p[2]

SimilarSymmetric ==
    call # NoCall => SameFraction(call.result, _similar(call.b, call.a, call.threshold))

\* C24: each of the three value checks fires iff its own condition holds:
\* rate_mismatch (medium) iff both rates are present and differ by more
\* than 0.01, hours_mismatch (medium) iff both hours are present and differ
\* by more than 0.1, amount_mismatch (high) iff the amounts, always
\* present, differ by more than 1.00; a check that fires yields exactly one
\* discrepancy, expected the time entry's value and actual the line
\* item's; a difference equal to the tolerance yields none.
FiredAs(type, severity, expected, actual) ==
    {k \in DOMAIN call.result :
        /\ call.result[k].discrepancy_type = type
        /\ call.result[k].severity = severity
        /\ call.result[k].expected_value = expected
        /\ call.result[k].actual_value = actual}

OfType(type) == {k \in DOMAIN call.result : call.result[k].discrepancy_type = type}

CheckFires(type, severity, expected, actual, present, tolerance) ==
    IF present /\ Abs(actual - expected) > tolerance
    THEN Cardinality(OfType(type)) = 1 /\ OfType(type) = FiredAs(type, severity, expected, actual)
    ELSE OfType(type) = {}

ValueChecksIndependent ==
    call # NoCall /\ call.fn = "_check_value_discrepancies" =>
        /\ CheckFires("rate_mismatch", "medium", call.time_entry.rate, call.line_item.rate,
                      call.time_entry.rate # 0 /\ call.line_item.rate # 0, 1)
        /\ CheckFires("hours_mismatch", "medium", call.time_entry.hours, call.line_item.hours,
                      call.time_entry.hours # 0 /\ call.line_item.hours # 0, 10)
        /\ CheckFires("amount_mismatch", "high", call.time_entry.total, call.line_item.amount,
                      TRUE, 100)

\* C21: the score of every candidate is (descriptionSimilarity + hoursBonus)
\* / 2, the bonus 1.0 when both hours are present and equal and 0.5 in
\* every other case, absent hours included; the entry returned has the
\* greatest such score.
HoursBonusScore(sim, line_item, entry) ==
    IF line_item.hours # 0 /\ entry.hours # 0 /\ line_item.hours = entry.hours
    THEN <<sim[1] + sim[2], 2 * sim[2]>>
    ELSE <<2 * sim[1] + sim[2], 4 * sim[2]>>

ClaimedScore(line_item, entry) ==
    HoursBonusScore(_similar(line_item.description, entry.description, <<0, 1>>),
                    line_item, entry)

ScoreAveragesHours ==
    call # NoCall /\ call.fn = "_find_matching_entry" =>
        /\ \A k \in DOMAIN call.candidates :
              SameFraction(call.scores[k], ClaimedScore(call.line_item, call.candidates[k]))
        /\ call.result # NoEntry =>
              \A k \in DOMAIN call.candidates :
                  ~FracGT(ClaimedScore(call.line_item, call.candidates[k]),
                          ClaimedScore(call.line_item, call.result))

\* C22: the entry returned is the first candidate, in the order of the
\* scan, among those of the greatest score, when that score is greater than
\* 0.5; when no score is greater than 0.5 nothing is returned.
Greatest(scores) ==
    {k \in DOMAIN scores : \A j \in DOMAIN scores : ~FracGT(scores[j], scores[k])}

FirstOf(S) == CHOOSE k \in S : \A j \in S : k <= j

FirstGreatestWins ==
    call # NoCall /\ call.fn = "_find_matching_entry" =>
        IF \E k \in DOMAIN call.scores : FracGT(call.scores[k], <<1, 2>>)
        THEN call.result = call.candidates[FirstOf(Greatest(call.scores))]
        ELSE call.result = NoEntry

\* Three candidates, the second and the third with the same greatest score
\* above 0.5: the second is returned.
FirstGreatestWinsWitness ==
    /\ call # NoCall /\ call.fn = "_find_matching_entry"
    /\ Len(call.candidates) = 3
    /\ Greatest(call.scores) = {2, 3}
    /\ FracGT(call.scores[2], <<1, 2>>)
    /\ call.result = call.candidates[2]

\* C23: when time entries have the line item's date and its timekeeper in
\* lower case as their name in lower case, the candidates are exactly
\* those, in their order; only when there are none are the candidates the
\* entries of the same date whose name has similarity >= 0.8 to the
\* timekeeper; an entry of another date is never a candidate.
ExactEntries ==
    SelectSeq(call.time_entries,
              LAMBDA e : /\ e.date = call.line_item.date
                         /\ Lower(e.timekeeper_name) = Lower(call.line_item.timekeeper))

NameSimilarity(e) ==
    Ratio(Strip(Lower(call.line_item.timekeeper)), Strip(Lower(e.timekeeper_name)))

SimilarEntries ==
    {e \in {call.time_entries[k] : k \in DOMAIN call.time_entries} :
        e.date = call.line_item.date /\ FracGE(NameSimilarity(e), <<4, 5>>)}

CandidatesExactElseSimilar ==
    call # NoCall /\ call.fn = "_find_matching_entry" =>
        /\ IF ExactEntries # <<>>
           THEN call.candidates = ExactEntries
           ELSE {call.candidates[k] : k \in DOMAIN call.candidates} = SimilarEntries
        /\ \A k \in DOMAIN call.candidates : call.candidates[k].date = call.line_item.date

\* Timekeeper 'abcde' and three entries of no such name: one named 'abcdx'
\* (similarity exactly 0.8) is a candidate, one named 'jx' and one of
\* another day are not.
CandidatesExactElseSimilarWitness ==
    /\ call # NoCall /\ call.fn = "_find_matching_entry"
    /\ ExactEntries = <<>>
    /\ Len(call.time_entries) = 3
    /\ \E e \in SimilarEntries : SameFraction(NameSimilarity(e), <<4, 5>>)
    /\ Len(call.candidates) = 1
    /\ \E k \in DOMAIN call.time_entries : call.time_entries[k].date # call.line_item.date
    /\ \E k \in DOMAIN call.time_entries :
          /\ call.time_entries[k].date = call.line_item.date
          /\ ~FracGE(NameSimilarity(call.time_entries[k]), <<4, 5>>)

\* C25: during a run the index of time entries stays as it was built, also
\* when the fuzzy fallback is used; no time entry is written, and of a line
\* item only matched and matched_time_entry_id are written.
IndexAndInputsUnchanged ==
    [][/\ timeEntries' = timeEntries
       /\ \A i \in DOMAIN lineItems :
             lineItems'[i] = [lineItems[i] EXCEPT
                                 !.matched = lineItems'[i].matched,
                                 !.matched_time_entry_id = lineItems'[i].matched_time_entry_id]
       /\ \A s \in DOMAIN loc' :
             loc'[s].pc = "loop" =>
                 loc'[s].entry_lookup = _build_time_entry_lookup(loc'[s].time_entries)]_vars

\* A run has matched a line item whose key is in no bucket, through the
\* fallback, and its index is still the one built from its time entries.
IndexAndInputsUnchangedWitness ==
    \E s \in Sessions :
        /\ loc[s].pc = "loop"
        /\ loc[s].entry_lookup = _build_time_entry_lookup(loc[s].time_entries)
        /\ \E k \in 1..(loc[s].cursor - 1) :
              /\ loc[s].items[k].id \in loc[s].wrote
              /\ LookupGet(loc[s].entry_lookup,
                           <<loc[s].items[k].date, Lower(loc[s].items[k].timekeeper)>>) = <<>>

\* C26: a time entry matched to a line item stays in the index for the rest
\* of the run, so a later line item of the run can be matched to it too,
\* both counting toward matched_count; a line item is matched to at most
\* one time entry.
MatchedEntryStaysIndexed ==
    \A s \in Sessions :
        /\ loc[s].pc = "loop" =>
              /\ \A e \in loc[s].matched_entries :
                    \E k \in DOMAIN loc[s].entry_lookup :
                    \E j \in DOMAIN loc[s].entry_lookup[k][2] :
                        loc[s].entry_lookup[k][2][j].id = e
              /\ loc[s].matched_count = Cardinality(loc[s].pairs)
        /\ \A p, q \in loc[s].pairs : p[1] = q[1] => p = q

\* A run has matched two line items to one time entry and counts two.
MatchedEntryStaysIndexedWitness ==
    \E s \in Sessions :
        /\ loc[s].pc = "loop"
        /\ loc[s].matched_count = 2
        /\ \E p, q \in loc[s].pairs : p[1] # q[1] /\ p[2] = q[2]

\* C27: the status of a discrepancy is always one of pending, acknowledged,
\* resolved, ignored, whatever status the resolve action is given.
ResolutionStatusIsChoice ==
    \A k \in DOMAIN discrepancies :
        discrepancies[k].status \in {"pending", "acknowledged", "resolved", "ignored"}

\* C28: when no run is under way, the stored match state of a line item
\* agrees with the latest completed run that processed it: matched with a
\* reference iff that run matched it, not matched and without a reference
\* iff that run created a missing_time discrepancy for it, never both
\* matched and the subject of a missing_time discrepancy of that session.
MissingTimeOf(s) ==
    {discrepancies[k].invoice_line_item :
        k \in {j \in SessionDiscrepancies(s) :
                  discrepancies[j].discrepancy_type = "missing_time"}}

CompletedRunsOf(i) ==
    {s \in Sessions : /\ recs[s].status = "completed"
                      /\ i \in loc[s].wrote \cup MissingTimeOf(s)}

LatestOf(S) == CHOOSE s \in S : \A t \in S : t <= s

MatchStateAgrees(i, s) ==
    /\ (lineItems[i].matched /\ lineItems[i].matched_time_entry_id # "") <=> i \in loc[s].wrote
    /\ (~lineItems[i].matched /\ lineItems[i].matched_time_entry_id = "")
           <=> i \in MissingTimeOf(s)
    /\ ~(lineItems[i].matched /\ i \in MissingTimeOf(s))

MatchStateOfLatestRun ==
    Idle => \A i \in DOMAIN lineItems :
                CompletedRunsOf(i) # {} => MatchStateAgrees(i, LatestOf(CompletedRunsOf(i)))

\* C29: in a completed session every processed line item is either matched
\* or has exactly one missing_time discrepancy, so line_items_count =
\* matched_count + the number of missing_time discrepancies, and
\* discrepancy_count = the missing_time + the value mismatches (at most
\* three per matched line item, none for another) + the extra_time ones.
OfSession(s, types) ==
    {k \in SessionDiscrepancies(s) : discrepancies[k].discrepancy_type \in types}

SessionAccounts ==
    \A s \in Sessions :
        recs[s].status = "completed" =>
            /\ recs[s].matched_count = Cardinality(loc[s].wrote)
            /\ loc[s].wrote \cap MissingTimeOf(s) = {}
            /\ Cardinality(OfSession(s, {"missing_time"})) = Cardinality(MissingTimeOf(s))
            /\ recs[s].line_items_count =
                   recs[s].matched_count + Cardinality(OfSession(s, {"missing_time"}))
            /\ recs[s].discrepancy_count =
                   Cardinality(OfSession(s, {"missing_time"}))
                       + Cardinality(OfSession(s, ValueTypes))
                       + Cardinality(OfSession(s, {"extra_time"}))
            /\ \A k \in OfSession(s, ValueTypes) :
                   discrepancies[k].invoice_line_item \in loc[s].wrote
            /\ \A i \in loc[s].wrote :
                   Cardinality({k \in OfSession(s, ValueTypes) :
                                   discrepancies[k].invoice_line_item = i}) <= 3

\* A completed session with a matched line item that has value mismatches,
\* a line item with a missing_time discrepancy and an extra_time
\* discrepancy.
SessionAccountsWitness ==
    \E s \in Sessions :
        /\ recs[s].status = "completed"
        /\ recs[s].matched_count > 0
        /\ Cardinality(OfSession(s, ValueTypes)) >= 2
        /\ OfSession(s, {"missing_time"}) # {}
        /\ OfSession(s, {"extra_time"}) # {}

\* C30: a run matches a line item only to a time entry of the same date
\* whose timekeeper name is the line item's timekeeper up to case, or has
\* similarity >= 0.8 to it; so every rate, hours or amount mismatch links a
\* line item and a time entry of one date.
SameTimekeeper(line_item, entry) ==
    \/ Lower(line_item.timekeeper) = Lower(entry.timekeeper_name)
    \/ FracGE(Ratio(Strip(Lower(line_item.timekeeper)), Strip(Lower(entry.timekeeper_name))),
              <<4, 5>>)

MatchesSameDateAndTimekeeper ==
    /\ \A s \in Sessions : \A p \in loc[s].pairs :
          /\ lineItems[p[1]].date = timeEntries[p[2]].date
          /\ SameTimekeeper(lineItems[p[1]], timeEntries[p[2]])
    /\ \A k \in DOMAIN discrepancies :
          discrepancies[k].discrepancy_type \in ValueTypes =>
              /\ <<discrepancies[k].invoice_line_item, discrepancies[k].time_entry>>
                     \in loc[discrepancies[k].reconciliation].pairs
              /\ lineItems[discrepancies[k].invoice_line_item].date
                     = timeEntries[discrepancies[k].time_entry].date

\* A run has matched, through the fallback, a line item to a time entry
\* whose name differs from its timekeeper, and saved a value mismatch for
\* the pair.
MatchesSameDateAndTimekeeperWitness ==
    \E k \in DOMAIN discrepancies :
        /\ discrepancies[k].discrepancy_type \in ValueTypes
        /\ Lower(lineItems[discrepancies[k].invoice_line_item].timekeeper)
               # Lower(timeEntries[discrepancies[k].time_entry].timekeeper_name)
        /\ <<discrepancies[k].invoice_line_item, discrepancies[k].time_entry>>
               \in loc[discrepancies[k].reconciliation].pairs
====
